---- MODULE Spec2Model ----
(***************************************************************************)
(* Model of the remote backup system: the parallel batch orchestrator      *)
(* (BackupController.bulkExecuteBackup), the backup job state machine      *)
(* (BackupService.executeBackup, in its hybrid and its streaming version)  *)
(* and the upload strategy resolver (HybridUploadService.uploadWithHybrid  *)
(* with LargeFileUploadService.uploadLargeFile).                           *)
(*                                                                         *)
(* A job is a process whose pc names the call it is awaiting; one action   *)
(* resolves that call with an outcome chosen by the environment and runs   *)
(* the synchronous code up to the next await.                              *)
(***************************************************************************)
EXTENDS Integers, Sequences, FiniteSets, TLC

\* ---------------------------------------------------------------- bounds
\* number of servers in a batch request
NJobs == 2

\* largest retryAttempts a caller of downloadFile passes in its options
MaxRetryAttempts == 3

\* ------------------------------------------------------------- constants
\* maxConcurrentBackups: parseInt(process.env.MAX_CONCURRENT_BACKUPS, 10) || 5
DefaultMaxConcurrentBackups == 5

\* retryAttempts: userOptions?.retryAttempts || 5
DefaultRetryAttempts == 5
\* retryDelay: userOptions?.retryDelay || 3000
DefaultRetryDelay == 3000
\* fileSize / (1024 * 1024) / 1024: the number of 1024-byte units in 1 GB
KBPerGB == 1048576
\* 1024 * 1024 * 1024, the divisor of fileSizeGB
GB == 1073741824
\* fileSizeGB > 1 selects the large-file chain
LargeFileThresholdGB == 1

\* remote archive sizes the environment may present, in bytes
FileSizes == {GB, GB + 1}

UploadMethods == {"direct", "local"}
\* the two versions of BackupService in the repository
BackupServices == {"hybrid", "stream"}

VARIABLES
  servers,        \* bulkBackupDto.servers: the configs of the request, in input order
  fileSize,       \* environment: actual byte size of each job's remote archive
  backupService,  \* which BackupService version is deployed
  discordEnabled, \* discordService.isEnabled()
  job,            \* per job: the locals of executeBackup and of the resolver
  results,        \* per job: the settled value of its backup promise, or Pending
  settleOrder,    \* history: the jobs in the order in which their promises settled
  bulk,           \* the BulkBackupResult returned by the batch call, or NoBulk
  sftp,           \* the locals of one SftpClientService.downloadFile call
  drive,          \* the folders of the Drive parent and the createDateFolder calls
  ssh,            \* the locals of one SshCommandService call
  fileTransfer,   \* the file names and paths FileTransferService works on
  backupConfig    \* backupConfig.backup: the settings read from the environment

vars == <<servers, fileSize, backupService, discordEnabled, job, results, settleOrder,
          bulk, sftp, drive, ssh,
                 fileTransfer, backupConfig>>

Jobs == 1 .. Len(servers)

\* a backup promise that has not settled yet
Pending == [pending |-> TRUE]

\* the batch call has not returned yet
NoBulk == [returned |-> FALSE]

\* BackupResult.steps as constructed at the start of executeBackup
NoSteps ==
  [sshConnection |-> FALSE, directoryCheck |-> FALSE, compression |-> FALSE,
   download |-> FALSE, googleDriveUpload |-> FALSE]

\* the locals of one executeBackup call before it starts
InitJob ==
  [pc |-> "idle",
   steps |-> NoSteps,
   success |-> FALSE,
   error |-> "none",
   remoteCompressedFile |-> "null",
   localFilePath |-> "null",
   googleDriveFileId |-> "none",
   \* resolver locals
   measuredSize |-> 0,
   lastError |-> "none",
   method |-> "none",
   strategy |-> "none",
   \* history of the run
   attempts |-> << >>,
   compressIssued |-> FALSE,
   deleteCalls |-> 0,
   deleteFailed |-> FALSE,
   cloudTried |-> FALSE,
   cloudOk |-> FALSE,
   localCopy |-> FALSE,
   notified |-> "none",
   notifyFailed |-> FALSE,
   openSessions |-> 0,
   raisedAt |-> "none",
   swallowedAt |-> "none",
   threw |-> FALSE]

\* googleDrive.uploadMethod as the request gives it: a method, or nothing
GivenUploadMethods == UploadMethods \cup {"undefined"}

\* shouldUploadToGoogleDrive and googleDrive.uploadMethod of a config
Configs == [enabled : BOOLEAN, uploadMethod : GivenUploadMethods]

\* an upload method that defaults to the direct upload
UploadMethodDefaultDirect(given) == IF given = "undefined" THEN "direct" ELSE given

\* const uploadMethod = config.googleDrive?.uploadMethod || 'local'
UploadMethodOf(given) == IF given = "undefined" THEN "local" ELSE given

\* ------------------------------------------------------------ exceptions
\* deleteRemoteFile with `throw error` at the end of its catch block
deleteRemoteFileRethrows(ok) == ~ok

\* CompressionService.deleteRemoteFile catches every error of the rm
\* command and does not rethrow: it throws for no outcome.
deleteRemoteFileThrows(ok) == FALSE

\* sendNotification with `throw error` at the end of its catch block
sendNotificationRethrows(delivered) == ~delivered

\* DiscordService.sendNotification catches every delivery error and does
\* not rethrow, so sendBackupSuccess / sendBackupFailure throw for no outcome.
sendNotificationThrows(delivered) == FALSE

\* a catch block that returns the result without the cleanup
CatchNoCleanup(r) == [r EXCEPT !.pc = "returned"]

\* the cleanup at the end of the catch block of executeBackup:
\* if (remoteCompressedFile) { try { deleteRemoteFile } catch {} }; return result
CatchCleanup(r) ==
  IF r.remoteCompressedFile # "null"
  THEN [r EXCEPT !.pc = "catchDeleteRemoteFile"]
  ELSE [r EXCEPT !.pc = "returned"]

\* a catch block that rethrows the error instead of returning the result
CatchRethrows(r, reason) ==
  [r EXCEPT !.error = reason, !.pc = "threw", !.threw = TRUE]

\* a catch block that does not record error.message in the result
CatchDropsReason(r, reason) ==
  IF discordEnabled
  THEN [r EXCEPT !.pc = "sendBackupFailure"]
  ELSE CatchCleanup(r)

\* the catch block of executeBackup: record the reason, notify, clean up
Catch(r, reason) ==
  LET r1 == [r EXCEPT !.error = reason]
  IN  IF discordEnabled
      THEN [r1 EXCEPT !.pc = "sendBackupFailure"]
      ELSE CatchCleanup(r1)

\* an exception handler that reports a fresh step record
RaiseResetsSteps(r, step, reason) ==
  Catch([r EXCEPT !.raisedAt = step, !.steps = NoSteps], reason)

\* an exception raised by step `step` inside the try block of executeBackup
Raise(r, step, reason) == Catch([r EXCEPT !.raisedAt = step], reason)

\* a success that reports a tolerated upload failure in result.error
MarkSuccessWithWarning(r) ==
  LET r1 == [r EXCEPT !.success = TRUE,
                      !.error = IF r.swallowedAt = "none" THEN @
                                ELSE "Google Drive upload failed"]
  IN  IF discordEnabled
      THEN [r1 EXCEPT !.pc = "sendBackupSuccess"]
      ELSE [r1 EXCEPT !.pc = "returned"]

\* result.success = true, then the success notification when enabled
MarkSuccess(r) ==
  LET r1 == [r EXCEPT !.success = TRUE]
  IN  IF discordEnabled
      THEN [r1 EXCEPT !.pc = "sendBackupSuccess"]
      ELSE [r1 EXCEPT !.pc = "returned"]

\* the code after the transfer branches: cleanup of the remote archive
AfterTransfer(r) ==
  IF r.remoteCompressedFile # "null"
  THEN [r EXCEPT !.pc = "deleteRemoteFile"]
  ELSE MarkSuccess(r)

\* no downloadFile call is being followed
NoSftp == [pc |-> "none"]

\* no createDateFolder call is being followed
NoDrive == [folders |-> {}, calls |-> << >>]

\* no SshCommandService call is being followed
NoSsh == [pc |-> "none"]

\* no FileTransferService call is being followed
NoFileTransfer == [pc |-> "none"]

\* parseInt(process.env.MAX_CONCURRENT_BACKUPS, 10) || 5, for the value of
\* the environment variable; 0 stands for a variable that is not set
MaxConcurrentBackupsOf(env) == IF env = 0 THEN DefaultMaxConcurrentBackups ELSE env

\* the settings of a deployment that sets no environment variable
DefaultBackupConfig == [maxConcurrentBackups |-> MaxConcurrentBackupsOf(0)]

\* ------------------------------------------------------------------ Init
InitCommon ==
  /\ sftp = NoSftp
  /\ drive = NoDrive
  /\ ssh = NoSsh
  /\ fileTransfer = NoFileTransfer
  /\ backupConfig = DefaultBackupConfig
  /\ discordEnabled \in BOOLEAN
  /\ job = [j \in Jobs |-> InitJob]
  /\ results = [j \in Jobs |-> Pending]
  /\ settleOrder = << >>
  /\ bulk = NoBulk

\* a request with one server, any configuration
Init ==
  /\ servers \in [1 .. 1 -> Configs]
  /\ backupService \in BackupServices
  /\ fileSize \in [Jobs -> FileSizes]
  /\ InitCommon

\* ------------------------------------------------- batch: fan-out of jobs
\* bulkExecuteBackup maps every server to a backup promise; each callback
\* runs synchronously up to its first await, the SSH connection test.
BulkExecute ==
  /\ \A j \in Jobs : job[j].pc = "idle"
  /\ job' = [j \in Jobs |-> [job[j] EXCEPT !.pc = "testConnection"]]
  /\ UNCHANGED <<servers, fileSize, backupService, discordEnabled, results, settleOrder,
                 bulk, sftp, drive, ssh,
                 fileTransfer, backupConfig>>

Set(j, r) ==
  /\ job' = [job EXCEPT ![j] = r]
  /\ UNCHANGED <<servers, fileSize, backupService, discordEnabled, results, settleOrder,
                 bulk, sftp, drive, ssh,
                 fileTransfer, backupConfig>>

\* ------------------------------------------- executeBackup: steps 1 to 3
\* Step 1: testConnection returns a boolean and never throws
TestConnection(j) ==
  /\ job[j].pc = "testConnection"
  /\ \E connectionSuccess \in BOOLEAN :
       Set(j, IF ~connectionSuccess
              THEN Raise(job[j], "testConnection", "SSH connection test failed")
              ELSE [job[j] EXCEPT !.steps.sshConnection = TRUE,
                                  !.pc = "checkRequiredTools"])

\* Step 1.5: checkRequiredTools returns {available, missing}
CheckRequiredTools(j) ==
  /\ job[j].pc = "checkRequiredTools"
  /\ \E available \in BOOLEAN :
       Set(j, IF ~available
              THEN Raise(job[j], "checkRequiredTools", "Required tools not installed")
              ELSE [job[j] EXCEPT !.pc = "directoryExists"])

\* Step 2: directoryExists returns a boolean
DirectoryExists(j) ==
  /\ job[j].pc = "directoryExists"
  /\ \E folderExists \in BOOLEAN :
       Set(j, IF ~folderExists
              THEN Raise(job[j], "directoryExists", "Target folder not found")
              ELSE [job[j] EXCEPT !.steps.directoryCheck = TRUE,
                                  !.pc = "compressFolder"])

\* outcomes of one SshCommandService.executeCommand call:
\* zero exit, non-zero exit, or a connection error before the command ran
CommandOutcomes == {"ok", "exit", "conn"}

\* a job that goes from the compression straight to the cleanup
TransferSkipped(j) == "deleteRemoteFile"

\* the first await of the transfer branch chosen by the configuration
TransferEntry(j) ==
  IF servers[j].enabled /\ UploadMethodOf(servers[j].uploadMethod) = "direct"
  THEN IF backupService = "hybrid" THEN "hy_getRemoteFileSize" ELSE "st_getReadStream"
  ELSE "downloadAndOrganizeFile"

\* Step 3: compressFolder runs the compression command and returns the
\* archive path, or rethrows the command's error
CompressFolder(j) ==
  /\ job[j].pc = "compressFolder"
  /\ \E out \in CommandOutcomes :
       LET r == [job[j] EXCEPT !.compressIssued = (out # "conn")]
       IN  Set(j, IF out # "ok"
                  THEN Raise(r, "compressFolder", "Compression failed")
                  ELSE [r EXCEPT !.remoteCompressedFile = "archive",
                                 !.steps.compression = TRUE,
                                 !.pc = TransferEntry(j)])

\* ------------------------------- executeBackup: local method, local only
\* Step 4 (cases 2 and 3): downloadAndOrganizeFile returns the local path
\* or throws when the download result is unsuccessful
DownloadAndOrganizeFile(j) ==
  /\ job[j].pc = "downloadAndOrganizeFile"
  /\ \E downloaded \in BOOLEAN :
       Set(j, IF ~downloaded
              THEN Raise(job[j], "downloadAndOrganizeFile", "Download failed")
              ELSE LET r == [job[j] EXCEPT !.localFilePath = "local",
                                           !.localCopy = TRUE,
                                           !.steps.download = TRUE]
                   IN  IF servers[j].enabled
                          /\ UploadMethodOf(servers[j].uploadMethod) = "local"
                       THEN [r EXCEPT !.pc = "uploadFile"]
                       ELSE AfterTransfer(r))

\* Step 5 (case 2): googleDriveService.uploadFile inside its own try/catch:
\* a failed upload is logged and the backup goes on
UploadFile(j) ==
  /\ job[j].pc = "uploadFile"
  /\ \E uploaded \in BOOLEAN :
       LET r == [job[j] EXCEPT !.cloudTried = TRUE]
       IN  Set(j, IF uploaded
                  THEN AfterTransfer([r EXCEPT !.googleDriveFileId = "file",
                                               !.steps.googleDriveUpload = TRUE,
                                               !.cloudOk = TRUE])
                  ELSE AfterTransfer([r EXCEPT !.swallowedAt = "uploadFile"]))

\* --------------------------------- uploadWithHybrid: the strategy resolver
\* getRemoteFileSize: the size read through getReadStream, or 0 when that fails
getRemoteFileSize(ok, size) == IF ok THEN size ELSE 0

\* the SFTP sessions of a job after the getReadStream call of
\* getRemoteFileSize: when it resolves, the connected client and the stream
\* it returns are dropped without end(); when it rejects, getReadStream
\* has ended the client
AfterSizeRead(r, ok) == [r EXCEPT !.openSessions = IF ok THEN @ + 1 ELSE @]

\* const fileSizeGB = fileSize / (1024 * 1024 * 1024); if (fileSizeGB > 1)
isLargeFile(size) == size > LargeFileThresholdGB * GB

\* one strategy is invoked: it joins the history of attempts
Attempt(r, strategyName, awaited) ==
  [r EXCEPT !.attempts = Append(@, strategyName), !.cloudTried = TRUE,
            !.pc = awaited]

\* uploadWithHybrid returned {fileId, folderName, method, ...}: executeBackup
\* records the upload and marks download and googleDriveUpload
HybridReturn(r, strategyName, methodName) ==
  AfterTransfer([r EXCEPT !.strategy = strategyName,
                          !.method = methodName,
                          !.cloudOk = TRUE,
                          !.googleDriveFileId = "file",
                          !.steps.googleDriveUpload = TRUE,
                          !.steps.download = TRUE])

\* an upload failure that is logged and swallowed, as in the empty catch of
\* the direct branch of the streaming BackupService
HybridSwallow(r, cause) ==
  AfterTransfer([r EXCEPT !.lastError = cause, !.swallowedAt = "uploadWithHybrid"])

\* a final throw that reports the first recorded error, not the last one
HybridThrowFirstError(r, cause) ==
  Raise([r EXCEPT !.lastError = IF @ = "none" THEN cause ELSE @],
        "uploadWithHybrid", "All upload methods failed")

\* every method failed: uploadWithHybrid throws "All upload methods failed",
\* executeBackup logs and rethrows to its outer catch
HybridThrow(r, cause) ==
  Raise([r EXCEPT !.lastError = cause], "uploadWithHybrid",
        "All upload methods failed")

\* a resolver that gives up when Method 1 fails or is unavailable
NoLocalFallback(r) == HybridThrow(r, r.lastError)

\* Method 2 of uploadWithHybrid: uploadWithLocalFallback starts its download
LocalFallback(r) == Attempt(r, "local", "lf_downloadFile")

\* a standard chain that starts with the local download
StandardChainLocalFirst(r) == LocalFallback(r)

\* Method 1 of uploadWithHybrid starts by probing for rclone
StandardChain(r) == [r EXCEPT !.pc = "hy_isRcloneAvailable"]

\* size check at the head of uploadWithHybrid
HyGetRemoteFileSize(j) ==
  /\ job[j].pc = "hy_getRemoteFileSize"
  /\ \E ok \in BOOLEAN :
       LET size == getRemoteFileSize(ok, fileSize[j])
           r == AfterSizeRead([job[j] EXCEPT !.measuredSize = size], ok)
       IN  Set(j, IF isLargeFile(size)
                  THEN [r EXCEPT !.pc = "lg_getRemoteFileSize"]
                  ELSE StandardChain(r))

\* uploadLargeFile: its own size check
LgGetRemoteFileSize(j) ==
  /\ job[j].pc = "lg_getRemoteFileSize"
  /\ \E ok \in BOOLEAN :
       Set(j, AfterSizeRead([job[j] EXCEPT !.pc = "lg_whichRclone"], ok))

\* uploadLargeFile strategy 1: `which rclone`, then uploadWithRcloneLarge
LgWhichRclone(j) ==
  /\ job[j].pc = "lg_whichRclone"
  /\ \E out \in {"path", "empty", "fail"} :
       Set(j, CASE out = "path" ->
                     Attempt(job[j], "large-rclone", "lg_uploadWithRcloneLarge")
                [] out = "empty" ->
                     Attempt(job[j], "large-optimized-streaming",
                             "lg_uploadWithOptimizedStreaming")
                [] out = "fail" ->
                     Attempt([job[j] EXCEPT !.lastError = "which rclone"],
                             "large-optimized-streaming",
                             "lg_uploadWithOptimizedStreaming"))

\* a large-file chain that goes from a failed rclone copy straight to the
\* chunked stream
LgUploadWithRcloneLargeSkips(j) ==
  /\ job[j].pc = "lg_uploadWithRcloneLarge"
  /\ \E ok \in BOOLEAN :
       Set(j, IF ok
              THEN HybridReturn(job[j], "large-rclone", "large-file-optimized")
              ELSE Attempt([job[j] EXCEPT !.lastError = "large-rclone"],
                           "large-chunked-streaming",
                           "lg_uploadWithChunkedStreaming"))

\* uploadWithRcloneLarge: the rclone copy with large-file settings
LgUploadWithRcloneLarge(j) ==
  /\ job[j].pc = "lg_uploadWithRcloneLarge"
  /\ \E ok \in BOOLEAN :
       Set(j, IF ok
              THEN HybridReturn(job[j], "large-rclone", "large-file-optimized")
              ELSE Attempt([job[j] EXCEPT !.lastError = "large-rclone"],
                           "large-optimized-streaming",
                           "lg_uploadWithOptimizedStreaming"))

\* uploadLargeFile strategy 2
LgUploadWithOptimizedStreaming(j) ==
  /\ job[j].pc = "lg_uploadWithOptimizedStreaming"
  /\ \E ok \in BOOLEAN :
       Set(j, IF ok
              THEN HybridReturn(job[j], "large-optimized-streaming",
                                "large-file-optimized")
              ELSE Attempt([job[j] EXCEPT !.lastError = "large-optimized-streaming"],
                           "large-chunked-streaming",
                           "lg_uploadWithChunkedStreaming"))

\* what uploadWithHybrid does when uploadLargeFile threw: it records the
\* error and falls back to the standard methods
LargeFileFailed(r) == StandardChain(r)

\* uploadLargeFile strategy 3; when it fails uploadLargeFile throws
LgUploadWithChunkedStreaming(j) ==
  /\ job[j].pc = "lg_uploadWithChunkedStreaming"
  /\ \E ok \in BOOLEAN :
       Set(j, IF ok
              THEN HybridReturn(job[j], "large-chunked-streaming",
                                "large-file-optimized")
              ELSE LargeFileFailed(
                     [job[j] EXCEPT !.lastError = "All large file upload methods failed"]))

\* Method 1: isRcloneAvailable never throws
HyIsRcloneAvailable(j) ==
  /\ job[j].pc = "hy_isRcloneAvailable"
  /\ \E isRcloneAvailable \in BOOLEAN :
       Set(j, IF isRcloneAvailable
              THEN Attempt(job[j], "rclone", "hy_uploadWithRclone")
              ELSE LocalFallback(job[j]))

HyUploadWithRclone(j) ==
  /\ job[j].pc = "hy_uploadWithRclone"
  /\ \E ok \in BOOLEAN :
       Set(j, IF ok
              THEN [job[j] EXCEPT !.pc = "hy_getRemoteFileSize2"]
              ELSE LocalFallback([job[j] EXCEPT !.lastError = "rclone"]))

\* size read again after a successful rclone upload
HyGetRemoteFileSize2(j) ==
  /\ job[j].pc = "hy_getRemoteFileSize2"
  /\ \E ok \in BOOLEAN :
       Set(j, HybridReturn(
                AfterSizeRead([job[j] EXCEPT !.measuredSize =
                                               getRemoteFileSize(ok, fileSize[j])],
                              ok),
                "rclone", "rclone"))

\* uploadWithLocalFallback: downloadFile returns a result, never throws
LfDownloadFile(j) ==
  /\ job[j].pc = "lf_downloadFile"
  /\ \E success \in BOOLEAN :
       Set(j, [job[j] EXCEPT !.localCopy = success,
                             !.pc = "lf_createDateFolder"])

LfCreateDateFolder(j) ==
  /\ job[j].pc = "lf_createDateFolder"
  /\ \E ok \in BOOLEAN :
       Set(j, IF ok
              THEN [job[j] EXCEPT !.pc = "lf_uploadFile"]
              ELSE HybridThrow(job[j], "createDateFolder"))

\* upload of the local copy, then unlinkSync of the local copy
LfUploadFile(j) ==
  /\ job[j].pc = "lf_uploadFile"
  /\ \E ok \in BOOLEAN :
       Set(j, IF ok
              THEN HybridReturn([job[j] EXCEPT !.localCopy = FALSE],
                                "local", "local")
              ELSE HybridThrow(job[j], "uploadFile"))

\* ------------------- executeBackup (streaming version): direct upload
\* getReadStream inside the outer try of the direct branch; its catch is empty
StGetReadStream(j) ==
  /\ job[j].pc = "st_getReadStream"
  /\ \E ok \in BOOLEAN :
       LET r == [job[j] EXCEPT !.cloudTried = TRUE,
                               !.attempts = Append(@, "stream")]
       IN  Set(j, IF ok
                  THEN [r EXCEPT !.measuredSize = fileSize[j],
                                 !.openSessions = @ + 1,
                                 !.pc = "st_createDateFolder"]
                  ELSE AfterTransfer([r EXCEPT !.swallowedAt = "getReadStream"]))

StCreateDateFolder(j) ==
  /\ job[j].pc = "st_createDateFolder"
  /\ \E ok \in BOOLEAN :
       Set(j, IF ok
              THEN [job[j] EXCEPT !.pc = "st_uploadFromStream"]
              ELSE [job[j] EXCEPT !.swallowedAt = "createDateFolder",
                                  !.pc = "st_clientEnd"])

StUploadFromStream(j) ==
  /\ job[j].pc = "st_uploadFromStream"
  /\ \E ok \in BOOLEAN :
       Set(j, IF ok
              THEN [job[j] EXCEPT !.googleDriveFileId = "file",
                                  !.steps.googleDriveUpload = TRUE,
                                  !.steps.download = TRUE,
                                  !.cloudOk = TRUE,
                                  !.strategy = "stream",
                                  !.pc = "st_clientEnd"]
              ELSE [job[j] EXCEPT !.swallowedAt = "uploadFromStream",
                                  !.pc = "st_clientEnd"])

\* finally { client.end() }: an error of end() is logged; an error of the
\* upload is swallowed by the empty catch of the direct branch
StClientEnd(j) ==
  /\ job[j].pc = "st_clientEnd"
  /\ \E ok \in BOOLEAN :
       Set(j, AfterTransfer([job[j] EXCEPT !.openSessions = @ - 1]))

\* -------------------------------------- executeBackup: cleanup and result
\* success path: await deleteRemoteFile, then result.success = true
DeleteRemoteFile(j) ==
  /\ job[j].pc = "deleteRemoteFile"
  /\ \E ok \in BOOLEAN :
       LET r == [job[j] EXCEPT !.deleteCalls = @ + 1,
                               !.deleteFailed = @ \/ ~ok]
       IN  Set(j, IF deleteRemoteFileThrows(ok)
                  THEN Raise(r, "deleteRemoteFile", "Failed to delete remote file")
                  ELSE MarkSuccess(r))

\* a success notification whose delivery failure is recorded in the result
SendBackupSuccessMarksFailure(j) ==
  /\ job[j].pc = "sendBackupSuccess"
  /\ \E delivered \in BOOLEAN :
       LET r == [job[j] EXCEPT !.notified = "success",
                               !.notifyFailed = ~delivered]
       IN  Set(j, IF delivered THEN [r EXCEPT !.pc = "returned"]
                  ELSE [r EXCEPT !.pc = "returned", !.success = FALSE,
                                 !.error = "Failed to send Discord notification"])

\* success notification, awaited inside the try block; then return result
SendBackupSuccess(j) ==
  /\ job[j].pc = "sendBackupSuccess"
  /\ \E delivered \in BOOLEAN :
       LET r == [job[j] EXCEPT !.notified = "success",
                               !.notifyFailed = ~delivered]
       IN  Set(j, IF sendNotificationThrows(delivered)
                  THEN Raise(r, "sendBackupSuccess", "Failed to send Discord notification")
                  ELSE [r EXCEPT !.pc = "returned"])

\* failure notification, awaited inside the catch block: an exception here
\* leaves executeBackup
SendBackupFailure(j) ==
  /\ job[j].pc = "sendBackupFailure"
  /\ \E delivered \in BOOLEAN :
       LET r == [job[j] EXCEPT !.notified = "failure",
                               !.notifyFailed = ~delivered]
       IN  Set(j, IF sendNotificationThrows(delivered)
                  THEN [r EXCEPT !.pc = "threw", !.threw = TRUE]
                  ELSE CatchCleanup(r))

\* failure path: deleteRemoteFile inside try/catch, then return result
CatchDeleteRemoteFile(j) ==
  /\ job[j].pc = "catchDeleteRemoteFile"
  /\ \E ok \in BOOLEAN :
       Set(j, [job[j] EXCEPT !.deleteCalls = @ + 1,
                             !.deleteFailed = @ \/ ~ok,
                             !.pc = "returned"])

\* the uploadMethod argument of sendBackupSuccess:
\* shouldUploadToGoogleDrive ? uploadMethod : undefined
ReportedMethod(j) ==
  IF servers[j].enabled THEN UploadMethodOf(servers[j].uploadMethod)
  ELSE "undefined"

\* methodDisplay of sendBackupSuccess: the transfer path shown to the
\* operator; without an upload method the field is left out
MethodDisplay(m) ==
  CASE m = "undefined" -> "none"
    [] m = "direct" -> "Direct (SSH -> Drive)"
    [] OTHER -> "Local (SSH -> PC -> Drive)"

\* the BackupResult object of a job as executeBackup holds it
ResultOf(j, r) ==
  [serverName |-> j, success |-> r.success, error |-> r.error, steps |-> r.steps]

\* ------------------------------------------------ batch: settle and report
\* per-job try/catch of bulkExecuteBackup: the result of executeBackup, or,
\* when executeBackup threw, a failed result with all steps false
JobSettle(j) ==
  /\ job[j].pc \in {"returned", "threw"}
  /\ results[j] = Pending
  /\ results' = [results EXCEPT ![j] =
       IF job[j].pc = "returned"
       THEN ResultOf(j, job[j])
       ELSE [serverName |-> j, success |-> FALSE, error |-> "thrown",
             steps |-> NoSteps]]
  /\ settleOrder' = Append(settleOrder, j)
  /\ job' = [job EXCEPT ![j].pc = "settled"]
  /\ UNCHANGED <<servers, fileSize, backupService, discordEnabled, bulk, sftp, drive, ssh,
                 fileTransfer, backupConfig>>

\* results.filter((r) => r).length: every result object is truthy
CountAll(rs, flag) == Len(rs)

\* results.filter(pred).length for pred = (r) => r.success === flag
RECURSIVE CountWhere(_, _)
CountWhere(rs, flag) ==
  IF rs = << >> THEN 0
  ELSE (IF Head(rs).success = flag THEN 1 ELSE 0) + CountWhere(Tail(rs), flag)

\* the settled values collected in the order of completion
CompletionOrder(res, order) == [i \in DOMAIN res |-> res[order[i]]]

\* Promise.all(backupPromises): the settled values in the order of the
\* promises, which is the order of the input configs
PromiseAll(res, order) == [i \in DOMAIN res |-> res[i]]

\* a batch call that resolves as soon as one backup promise has settled
\* (Promise.race in place of Promise.all) and reports the settled entries
BulkReturnEarly ==
  /\ bulk = NoBulk
  /\ \E j \in Jobs : results[j] # Pending
  /\ LET rs == SelectSeq(results, LAMBDA x : x # Pending)
     IN  bulk' = [totalServers |-> Len(servers),
                  successCount |-> CountWhere(rs, TRUE),
                  failureCount |-> CountWhere(rs, FALSE),
                  results |-> rs]
  /\ UNCHANGED <<servers, fileSize, backupService, discordEnabled, job, results,
                 settleOrder, sftp, drive, ssh,
                 fileTransfer, backupConfig>>

\* Promise.all resolved: statistics and the BulkBackupResult
BulkReturn ==
  /\ bulk = NoBulk
  /\ Jobs # {}
  /\ \A j \in Jobs : results[j] # Pending
  /\ LET rs == PromiseAll(results, settleOrder)
     IN  bulk' = [totalServers |-> Len(servers),
                  successCount |-> CountWhere(rs, TRUE),
                  failureCount |-> CountWhere(rs, FALSE),
                  results |-> rs]
  /\ UNCHANGED <<servers, fileSize, backupService, discordEnabled, job, results,
                 settleOrder, sftp, drive, ssh,
                 fileTransfer, backupConfig>>

\* ------------------------------------------------------- specifications
\* one step of executeBackup common to every configuration
JobStep(j) ==
  \/ TestConnection(j)
  \/ CheckRequiredTools(j)
  \/ DirectoryExists(j)
  \/ CompressFolder(j)
  \/ DownloadAndOrganizeFile(j)
  \/ DeleteRemoteFile(j)
  \/ SendBackupSuccess(j)
  \/ SendBackupFailure(j)
  \/ CatchDeleteRemoteFile(j)

\* Drive upload of the local method
DriveStep(j) == UploadFile(j)

\* one step of the upload strategy resolver
HybridStep(j) ==
  \/ HyGetRemoteFileSize(j)
  \/ LgGetRemoteFileSize(j)
  \/ LgWhichRclone(j)
  \/ LgUploadWithRcloneLarge(j)
  \/ LgUploadWithOptimizedStreaming(j)
  \/ LgUploadWithChunkedStreaming(j)
  \/ HyIsRcloneAvailable(j)
  \/ HyUploadWithRclone(j)
  \/ HyGetRemoteFileSize2(j)
  \/ LfDownloadFile(j)
  \/ LfCreateDateFolder(j)
  \/ LfUploadFile(j)

\* one step of the direct upload of the streaming BackupService
StreamStep(j) ==
  \/ StGetReadStream(j)
  \/ StCreateDateFolder(j)
  \/ StUploadFromStream(j)
  \/ StClientEnd(j)

NextBatch ==
  \/ BulkExecute
  \/ \E j \in Jobs : JobStep(j)
  \/ \E j \in Jobs : DriveStep(j)
  \/ \E j \in Jobs : JobSettle(j)
  \/ BulkReturn

Next ==
  \/ NextBatch
  \/ \E j \in Jobs : HybridStep(j)
  \/ \E j \in Jobs : StreamStep(j)

\* one job, every configuration
Spec == Init /\ [][Next]_vars

\* one job: every awaited call completes
FairSpec == Init /\ [][Next]_vars /\ WF_vars(Next)

\* configurations used for batches of NJobs jobs: download to local storage,
\* with or without the Drive upload of the local method (the archive size and
\* the BackupService version play no part in these branches)
BatchConfigs == {c \in Configs : c.uploadMethod = "local"}

InitBatch ==
  /\ servers \in [1 .. NJobs -> BatchConfigs]
  /\ backupService = "hybrid"
  /\ fileSize = [j \in Jobs |-> GB]
  /\ InitCommon

\* a batch of NJobs jobs running concurrently
SpecBatch == InitBatch /\ [][NextBatch]_vars

\* values of MAX_CONCURRENT_BACKUPS in the environment of a deployment:
\* not set, or set to 1
ConcurrencyEnv == {0, 1}

\* a batch request to a deployment with a configured concurrency limit
InitLimit ==
  /\ servers \in [1 .. NJobs -> BatchConfigs]
  /\ backupService = "hybrid"
  /\ fileSize = [j \in Jobs |-> GB]
  /\ sftp = NoSftp
  /\ drive = NoDrive
  /\ ssh = NoSsh
  /\ fileTransfer = NoFileTransfer
  /\ \E env \in ConcurrencyEnv :
       backupConfig = [maxConcurrentBackups |-> MaxConcurrentBackupsOf(env)]
  /\ discordEnabled \in BOOLEAN
  /\ job = [j \in Jobs |-> InitJob]
  /\ results = [j \in Jobs |-> Pending]
  /\ settleOrder = << >>
  /\ bulk = NoBulk

\* a batch of NJobs jobs under a configured MAX_CONCURRENT_BACKUPS
SpecLimit == InitLimit /\ [][NextBatch]_vars

\* ----------------------------------- SftpClientService.downloadFile
\* options.retryAttempts of a call: a count, or 0 when the caller gives none
\* (undefined and 0 are both falsy)
RetryOptions == 0 .. MaxRetryAttempts

\* the DownloadOptions a caller passes; 0 stands for a field not given
UserOptions ==
  [concurrency : {0, 64}, chunkSize : {0, 65536},
   retryAttempts : RetryOptions, retryDelay : {0, 1000}]

\* remote file sizes reported by client.stat, in units of 1024 bytes: the
\* values around 100 MB, 0.1 GB, 1 GB, 5 GB and 10 GB
SftpFileSizes ==
  {1, 100 * 1024 - 1, 100 * 1024, 104857, 104858,
   KBPerGB - 1, KBPerGB, 2 * KBPerGB, 5 * KBPerGB - 1, 5 * KBPerGB,
   10 * KBPerGB - 1, 10 * KBPerGB}

\* getOptimizedDownloadSettings: retryAttempts: userOptions?.retryAttempts || 5
RetryAttemptsOf(given) == IF given = 0 THEN DefaultRetryAttempts ELSE given

\* getOptimizedDownloadSettings: retryDelay: userOptions?.retryDelay || 3000
RetryDelayOf(given) == IF given = 0 THEN DefaultRetryDelay ELSE given

\* the adaptive settings of getOptimizedDownloadSettings for a size in units
\* of 1024 bytes: fileSizeGB = size / KBPerGB, compared with 0.1, 1, 5, 10
TierOf(size) ==
  CASE size * 10 < KBPerGB  -> [concurrency |-> 32,  chunkSize |-> 65536]
    [] size * 10 >= KBPerGB /\ size < KBPerGB
                            -> [concurrency |-> 64,  chunkSize |-> 131072]
    [] size >= KBPerGB /\ size < 5 * KBPerGB
                            -> [concurrency |-> 96,  chunkSize |-> 262144]
    [] size >= 5 * KBPerGB /\ size < 10 * KBPerGB
                            -> [concurrency |-> 128, chunkSize |-> 524288]
    [] OTHER                -> [concurrency |-> 160, chunkSize |-> 1048576]

\* getOptimizedDownloadSettings: user options override the adaptive settings
getOptimizedDownloadSettings(size, userOptions) ==
  [concurrency |-> IF userOptions.concurrency = 0
                   THEN TierOf(size).concurrency ELSE userOptions.concurrency,
   chunkSize |-> IF userOptions.chunkSize = 0
                 THEN TierOf(size).chunkSize ELSE userOptions.chunkSize,
   retryAttempts |-> RetryAttemptsOf(userOptions.retryAttempts),
   retryDelay |-> RetryDelayOf(userOptions.retryDelay)]

\* the locals of a downloadFile call at its entry
SftpCall(options) ==
  [pc |-> "connect",
   options |-> options,
   fileSize |-> 0,
   concurrency |-> 0,
   chunkSize |-> 0,
   maxAttempts |-> 0,
   delayMs |-> 0,
   attempt |-> 0,
   lastError |-> "none",
   sessionOpen |-> FALSE,
   \* what the last copy attempt left of the local file
   written |-> "nothing",
   \* history of the call
   copies |-> 0,
   copyFrom |-> << >>,
   delays |-> << >>,
   copied |-> FALSE,
   success |-> FALSE,
   error |-> "none",
   threw |-> FALSE]

\* no batch request is running
NoBatch ==
  /\ servers = << >>
  /\ fileSize = << >>
  /\ backupService = "hybrid"
  /\ discordEnabled = FALSE
  /\ job = << >>
  /\ results = << >>
  /\ settleOrder = << >>
  /\ bulk = NoBulk

\* the state in which a caller is about to call downloadFile
InitSftp ==
  /\ NoBatch
  /\ sftp = NoSftp
  /\ drive = NoDrive
  /\ ssh = NoSsh
  /\ fileTransfer = NoFileTransfer
  /\ backupConfig = DefaultBackupConfig

SetSftp(c) ==
  /\ sftp' = c
  /\ UNCHANGED <<servers, fileSize, backupService, discordEnabled, job, results,
                 settleOrder, bulk, drive, ssh,
                 fileTransfer, backupConfig>>

\* downloadFile is called: new SftpClient(), then await client.connect
SftpDownloadFile ==
  /\ sftp = NoSftp
  /\ \E options \in UserOptions : SetSftp(SftpCall(options))

\* a catch block of downloadFile that rethrows the error to the caller
SftpRethrow(c, cause) ==
  [c EXCEPT !.lastError = cause, !.pc = "threw", !.threw = TRUE]

\* an error thrown inside the try block of downloadFile reaches its catch
\* block, which first awaits client.end()
SftpCatch(c, cause) == [c EXCEPT !.lastError = cause, !.pc = "catchEnd"]

\* await client.connect(...) inside the try block
SftpConnect ==
  /\ sftp.pc = "connect"
  /\ \E ok \in BOOLEAN :
       SetSftp(IF ok
               THEN [sftp EXCEPT !.sessionOpen = TRUE, !.pc = "stat"]
               ELSE SftpCatch(sftp, "connect"))

\* the offset at which a copy attempt starts: client.fastGet(remotePath,
\* localPath, ...) copies the whole file
CopyStart(c) == 0

\* await client.stat(remotePath); getOptimizedDownloadSettings; entry of
\* executeWithRetry: attempt = 1, first call of the operation
SftpStat ==
  /\ sftp.pc = "stat"
  /\ \E ok \in BOOLEAN, size \in SftpFileSizes :
       SetSftp(IF ok
               THEN LET o == getOptimizedDownloadSettings(size, sftp.options)
                    IN  [sftp EXCEPT !.fileSize = size,
                                     !.concurrency = o.concurrency,
                                     !.chunkSize = o.chunkSize,
                                     !.maxAttempts = o.retryAttempts,
                                     !.delayMs = o.retryDelay,
                                     !.attempt = 1,
                                     !.pc = "fastGet"]
               ELSE SftpCatch(sftp, "stat"))

\* the catch block of the loop of executeWithRetry: lastError = error; when
\* attempt < maxAttempts await the delay; otherwise the loop ends and
\* lastError is thrown
AfterFailedAttempt(c) ==
  IF c.attempt < c.maxAttempts
  THEN [c EXCEPT !.lastError = "fastGet", !.pc = "delay"]
  ELSE SftpCatch(c, "fastGet")

\* one call of the operation of executeWithRetry: client.fastGet
SftpFastGet ==
  /\ sftp.pc = "fastGet"
  /\ \E ok \in BOOLEAN, left \in {"nothing", "partial"} :
       LET c == [sftp EXCEPT !.copies = @ + 1,
                             !.copyFrom = Append(@, CopyStart(sftp))]
       IN  SetSftp(IF ok
                   THEN [c EXCEPT !.copied = TRUE, !.written = "full", !.pc = "end"]
                   ELSE AfterFailedAttempt([c EXCEPT !.written = left]))

\* a delay that doubles with every attempt
DelayBackoff(c) == c.delayMs * (2 ^ (c.attempt - 1))

\* await this.delay(delayMs): the delayMs passed to executeWithRetry
DelayOf(c) == c.delayMs

\* await this.delay(delayMs), then attempt++ and the next call
SftpDelay ==
  /\ sftp.pc = "delay"
  /\ SetSftp([sftp EXCEPT !.delays = Append(@, DelayOf(sftp)),
                          !.attempt = @ + 1,
                          !.pc = "fastGet"])

\* await client.end() after the retry loop, still inside the try block;
\* then return {success: true}
SftpEnd ==
  /\ sftp.pc = "end"
  /\ \E ok \in BOOLEAN :
       SetSftp(IF ok
               THEN [sftp EXCEPT !.sessionOpen = FALSE, !.success = TRUE,
                                 !.pc = "returned"]
               ELSE SftpCatch(sftp, "end"))

\* catch block: try { await client.end() } catch {} ; return {success: false,
\* error: error.message}
SftpCatchEnd ==
  /\ sftp.pc = "catchEnd"
  /\ \E ok \in BOOLEAN :
       SetSftp([sftp EXCEPT !.sessionOpen = IF ok THEN FALSE ELSE @,
                            !.success = FALSE,
                            !.error = sftp.lastError,
                            !.pc = "returned"])

NextSftp ==
  \/ SftpDownloadFile
  \/ SftpConnect
  \/ SftpStat
  \/ SftpFastGet
  \/ SftpDelay
  \/ SftpEnd
  \/ SftpCatchEnd

\* one downloadFile call, every option and file size
SpecSftp == InitSftp /\ [][NextSftp]_vars

\* one downloadFile call in which every awaited call completes
FairSpecSftp == InitSftp /\ [][NextSftp]_vars /\ WF_vars(NextSftp)

\* the DownloadOptions downloadAndOrganizeFile passes to downloadFile:
\* { concurrency: 64, chunkSize: 65536, onProgress }
OrganizeOptions ==
  [concurrency |-> 64, chunkSize |-> 65536, retryAttempts |-> 0, retryDelay |-> 0]

\* the download step of a job: downloadAndOrganizeFile calls downloadFile
OrganizeDownloadFile ==
  /\ sftp = NoSftp
  /\ SetSftp(SftpCall(OrganizeOptions))

NextDownload ==
  \/ OrganizeDownloadFile
  \/ SftpConnect
  \/ SftpStat
  \/ SftpFastGet
  \/ SftpDelay
  \/ SftpEnd
  \/ SftpCatchEnd

\* the downloadFile call of the download step of a job
SpecDownload == InitSftp /\ [][NextDownload]_vars

\* ------------------------------------------- GoogleDriveService folders
\* createDateFolder calls followed in one run
MaxFolderCalls == 3

\* server names the callers pass
FolderServers == {"db1", "db2"}

\* `${year}_${month}_${day}-Database_${serverName}` on the day of the run
FolderNameOf(serverName) == <<"Database", serverName>>

\* the folders of the parent, each with the id Drive gave it
FolderIds == {f.id : f \in drive.folders}

\* a search under another parent, which never finds the folder
ExistingFoldersElsewhere(name) == {}

\* drive.files.list with name = folderName under the parent: the matches
ExistingFolders(name) == {f \in drive.folders : f.name = name}

\* the Drive of the parent before the run: empty, or with the folder of an
\* earlier run
InitFolder ==
  /\ NoBatch
  /\ sftp = NoSftp
  /\ ssh = NoSsh
  /\ fileTransfer = NoFileTransfer
  /\ backupConfig = DefaultBackupConfig
  /\ \E fs \in {{}, {[id |-> 1, name |-> FolderNameOf("db1")]}} :
       drive = [folders |-> fs, calls |-> << >>]

FolderCalls == DOMAIN drive.calls

FolderEnded(i) == drive.calls[i].pc \in {"returned", "threw"}

SetFolderCall(i, c) ==
  /\ drive' = [drive EXCEPT !.calls[i] = c]
  /\ UNCHANGED <<servers, fileSize, backupService, discordEnabled, job, results,
                 settleOrder, bulk, sftp, ssh,
                 fileTransfer, backupConfig>>

\* createDateFolder(serverName): the folder name, then the first await
CreateDateFolder(serverName) ==
  /\ Len(drive.calls) < MaxFolderCalls
  /\ drive' = [drive EXCEPT !.calls = Append(@,
       [pc |-> "createAuthClient", name |-> FolderNameOf(serverName),
        id |-> 0, created |-> FALSE,
        after |-> {i \in FolderCalls : FolderEnded(i)}])]
  /\ UNCHANGED <<servers, fileSize, backupService, discordEnabled, job, results,
                 settleOrder, bulk, sftp, ssh,
                 fileTransfer, backupConfig>>

\* a caller that calls createDateFolder when no other call is in flight
CreateDateFolderAlone(serverName) ==
  /\ \A i \in FolderCalls : FolderEnded(i)
  /\ CreateDateFolder(serverName)

\* catch (error) { log; throw error }
FolderCatch(c) == [c EXCEPT !.pc = "threw"]

\* await this.createAuthClient(credentials)
FolderAuth(i) ==
  /\ drive.calls[i].pc = "createAuthClient"
  /\ \E ok \in BOOLEAN :
       SetFolderCall(i, IF ok THEN [drive.calls[i] EXCEPT !.pc = "files.list"]
                        ELSE FolderCatch(drive.calls[i]))

\* await drive.files.list(...): return files[0].id when the list is not
\* empty; the order of the list is Drive's
FolderList(i) ==
  /\ drive.calls[i].pc = "files.list"
  /\ \/ SetFolderCall(i, FolderCatch(drive.calls[i]))
     \/ /\ ExistingFolders(drive.calls[i].name) = {}
        /\ SetFolderCall(i, [drive.calls[i] EXCEPT !.pc = "files.create"])
     \/ \E f \in ExistingFolders(drive.calls[i].name) :
          SetFolderCall(i, [drive.calls[i] EXCEPT !.pc = "returned", !.id = f.id])

\* await drive.files.create(...): return response.data.id
FolderCreate(i) ==
  /\ drive.calls[i].pc = "files.create"
  /\ \/ SetFolderCall(i, FolderCatch(drive.calls[i]))
     \/ LET id == Cardinality(drive.folders) + 1
        IN  /\ drive' = [drive EXCEPT
                 !.folders = @ \cup {[id |-> id, name |-> drive.calls[i].name]},
                 !.calls[i] = [@ EXCEPT !.pc = "returned", !.id = id,
                                        !.created = TRUE]]
            /\ UNCHANGED <<servers, fileSize, backupService, discordEnabled, job,
                           results, settleOrder, bulk, sftp, ssh,
                 fileTransfer, backupConfig>>

NextFolder ==
  \/ \E serverName \in FolderServers : CreateDateFolder(serverName)
  \/ \E i \in FolderCalls : FolderAuth(i)
  \/ \E i \in FolderCalls : FolderList(i)
  \/ \E i \in FolderCalls : FolderCreate(i)

NextFolderSeq ==
  \/ \E serverName \in FolderServers : CreateDateFolderAlone(serverName)
  \/ \E i \in FolderCalls : FolderAuth(i)
  \/ \E i \in FolderCalls : FolderList(i)
  \/ \E i \in FolderCalls : FolderCreate(i)

\* createDateFolder calls of concurrent jobs
SpecFolder == InitFolder /\ [][NextFolder]_vars

\* createDateFolder calls made one after the other
SpecFolderSeq == InitFolder /\ [][NextFolderSeq]_vars

\* ---------------------------------------------------- SshCommandService
\* binaries the remote host may have installed
Tools == {"zip", "tar", "gzip"}

CompressionTypes == {"zip", "tar.gz"}

\* how a call of executeCommand settles: the command ran to its exit code,
\* the connection emitted 'error' (transport or authentication), or
\* conn.exec reported an error
ExecOutcomes == {"ran", "connectionError", "execError"}

\* requiredTools of checkRequiredTools
RequiredTools(compressionType) ==
  IF compressionType = "zip" THEN <<"zip">> ELSE <<"tar", "gzip">>

InitSsh ==
  /\ NoBatch
  /\ sftp = NoSftp
  /\ drive = NoDrive
  /\ ssh = NoSsh
  /\ fileTransfer = NoFileTransfer
  /\ backupConfig = DefaultBackupConfig

SetSsh(c) ==
  /\ ssh' = c
  /\ UNCHANGED <<servers, fileSize, backupService, discordEnabled, job, results,
                 settleOrder, bulk, sftp, drive, fileTransfer, backupConfig>>

\* directoryExists(sshConfig, path) on a host where the path is a directory
\* or not: await executeCommand of the [ -d ] test
SshDirectoryExists ==
  /\ ssh = NoSsh
  /\ \E present \in BOOLEAN :
       SetSsh([op |-> "directoryExists", pc |-> "executeCommand",
               present |-> present, outcome |-> "none", output |-> "none",
               value |-> FALSE, threw |-> FALSE])

\* stdout of `[ -d "path" ] && echo "exists" || echo "not_exists"`
DirectoryTestOutput(present) == IF present THEN "exists\n" ELSE "not_exists\n"

\* result.trim()
Trim(output) ==
  CASE output = "exists\n" -> "exists"
    [] output = "not_exists\n" -> "not_exists"
    [] OTHER -> output

\* catch (error) { log; return false }
DirectoryExistsCatch(c, outcome) ==
  [c EXCEPT !.pc = "returned", !.outcome = outcome, !.value = FALSE]

\* executeCommand settles: exists = result.trim() === 'exists', or the catch
SshDirectoryTest ==
  /\ ssh # NoSsh
  /\ ssh.op = "directoryExists"
  /\ ssh.pc = "executeCommand"
  /\ \E outcome \in ExecOutcomes :
       SetSsh(IF outcome = "ran"
              THEN LET result == DirectoryTestOutput(ssh.present)
                   IN  [ssh EXCEPT !.pc = "returned", !.outcome = outcome,
                                   !.output = result,
                                   !.value = (Trim(result) = "exists")]
              ELSE DirectoryExistsCatch(ssh, outcome))

\* checkRequiredTools(sshConfig, compressionType) on a host with the
\* binaries `installed`: the loop starts at the first required tool
SshCheckRequiredTools ==
  /\ ssh = NoSsh
  /\ \E compressionType \in CompressionTypes : \E installed \in SUBSET Tools :
       SetSsh([op |-> "checkRequiredTools", pc |-> "executeCommand",
               compressionType |-> compressionType, installed |-> installed,
               next |-> 1, probed |-> << >>, outcomes |-> << >>,
               missing |-> << >>, available |-> FALSE])

\* the end of the loop: { available: false, missing } or { available: true }
ToolsReturn(c) ==
  [c EXCEPT !.pc = "returned", !.available = (Len(c.missing) = 0)]

\* a loop that stops at the first tool found missing
AfterWhichBreaks(c, found) ==
  LET tool == RequiredTools(c.compressionType)[c.next]
      c1 == [c EXCEPT !.probed = Append(@, tool),
                      !.missing = IF found THEN @ ELSE Append(@, tool),
                      !.next = @ + 1]
  IN  IF found /\ c1.next <= Len(RequiredTools(c.compressionType))
      THEN c1 ELSE ToolsReturn(c1)

\* one iteration of the loop after `which tool` settled: push the tool to
\* missing when the call rejected, then go on with the next required tool
AfterWhich(c, found) ==
  LET tool == RequiredTools(c.compressionType)[c.next]
      c1 == [c EXCEPT !.probed = Append(@, tool),
                      !.missing = IF found THEN @ ELSE Append(@, tool),
                      !.next = @ + 1]
  IN  IF c1.next <= Len(RequiredTools(c.compressionType))
      THEN c1 ELSE ToolsReturn(c1)

\* await executeCommand(`which tool`): resolves when the command ran and
\* exited 0, which it does exactly for an installed binary
SshWhich ==
  /\ ssh # NoSsh
  /\ ssh.op = "checkRequiredTools"
  /\ ssh.pc = "executeCommand"
  /\ \E outcome \in ExecOutcomes :
       LET tool == RequiredTools(ssh.compressionType)[ssh.next]
       IN  SetSsh(AfterWhich([ssh EXCEPT !.outcomes = Append(@, outcome)],
                             outcome = "ran" /\ tool \in ssh.installed))

NextSsh ==
  \/ SshDirectoryExists
  \/ SshDirectoryTest
  \/ SshCheckRequiredTools
  \/ SshWhich

\* one call of directoryExists or checkRequiredTools
SpecSsh == InitSsh /\ [][NextSsh]_vars

\* ------------------------------------ SshCommandService.executeCommand
\* executeCommand calls followed in one run
MaxExecCalls == 3

ExecCalls == DOMAIN ssh.calls

ExecRunning == ssh # NoSsh /\ ssh.op = "executeCommand"

\* a run of executeCommand calls: no call yet, no session open
InitExec ==
  /\ NoBatch
  /\ sftp = NoSftp
  /\ drive = NoDrive
  /\ fileTransfer = NoFileTransfer
  /\ backupConfig = DefaultBackupConfig
  /\ ssh = [op |-> "executeCommand", pc |-> "calls", clients |-> 0,
            sessions |-> {}, calls |-> << >>]

\* const conn = new Client(); ... .connect(config): every call constructs
\* its own client
ExecuteCommand ==
  /\ ExecRunning
  /\ Len(ssh.calls) < MaxExecCalls
  /\ SetSsh([ssh EXCEPT !.clients = @ + 1,
                        !.calls = Append(@, [pc |-> "connect",
                                             conn |-> ssh.clients + 1,
                                             outcome |-> "none"])])

\* a client whose end() is not called
connEndSkipped(sessions, conn) == sessions

\* conn.end(): the session of the client is closed
connEnd(sessions, conn) == sessions \ {conn}

\* the connection failed or was lost: the client emits 'error', no session
\* of it is left, and the handler rejects
ExecConnectionError(i) ==
  [ssh EXCEPT !.sessions = @ \ {ssh.calls[i].conn},
              !.calls[i] = [@ EXCEPT !.pc = "rejected",
                                     !.outcome = "connectionError"]]

\* 'ready': the session is established and conn.exec is called; or 'error'
ExecConnect(i) ==
  /\ ExecRunning
  /\ ssh.calls[i].pc = "connect"
  /\ \/ SetSsh([ssh EXCEPT !.sessions = @ \cup {ssh.calls[i].conn},
                           !.calls[i].pc = "exec"])
     \/ SetSsh(ExecConnectionError(i))

\* the callback of conn.exec: if (err) { conn.end(); return reject(err) },
\* else the handlers of the stream are installed
ExecCallback(i) ==
  /\ ExecRunning
  /\ ssh.calls[i].pc = "exec"
  /\ \/ SetSsh([ssh EXCEPT !.sessions = connEnd(@, ssh.calls[i].conn),
                           !.calls[i] = [@ EXCEPT !.pc = "rejected",
                                                  !.outcome = "execError"]])
     \/ SetSsh([ssh EXCEPT !.calls[i].pc = "stream"])
     \/ SetSsh(ExecConnectionError(i))

\* stream 'close' with the exit code: conn.end(), then resolve(output) for
\* code 0 and reject for any other code; or the connection is lost first
ExecStreamClose(i) ==
  /\ ExecRunning
  /\ ssh.calls[i].pc = "stream"
  /\ \/ \E code \in {0, 1} :
          SetSsh([ssh EXCEPT !.sessions = connEnd(@, ssh.calls[i].conn),
                             !.calls[i] =
                               IF code = 0
                               THEN [@ EXCEPT !.pc = "resolved",
                                              !.outcome = "zeroExit"]
                               ELSE [@ EXCEPT !.pc = "rejected",
                                              !.outcome = "nonZeroExit"]])
     \/ SetSsh(ExecConnectionError(i))

NextExec ==
  \/ ExecuteCommand
  \/ \E i \in ExecCalls : ExecConnect(i)
  \/ \E i \in ExecCalls : ExecCallback(i)
  \/ \E i \in ExecCalls : ExecStreamClose(i)

\* executeCommand calls that may overlap
SpecExec == InitExec /\ [][NextExec]_vars

\* -------------------------------------------------- FileTransferService
\* the longest file name, in parts
MaxNameLen == 3

\* a file name is the sequence of its parts; the parts are the substrings
\* the code tells apart: a word, the words that hold 'upload' or
\* 'database', an 8-digit date, a 6-digit time, the 13-digit millisecond
\* timestamp of compressFolder, a suffix word, and the extensions
NameParts ==
  {"data", "uploads", "database", "_20251017", "_235959", "_1760745599000",
   "_1760745599001", "_1760745599002", "_backup", ".zip", ".tar", ".gz"}

\* the parts that start with a dot
DotParts == {".zip", ".tar", ".gz"}

FileNames == UNION {[1 .. n -> NameParts] : n \in 1 .. MaxNameLen}

\* filename.endsWith('.tar.gz')
EndsWithTarGz(name) ==
  /\ Len(name) >= 2
  /\ SubSeq(name, Len(name) - 1, Len(name)) = <<".tar", ".gz">>

\* filename.lastIndexOf('.'): the index of the last part that starts with
\* a dot, 0 for -1
LastDot(name) ==
  IF \E i \in DOMAIN name : name[i] \in DotParts
  THEN CHOOSE i \in DOMAIN name :
         /\ name[i] \in DotParts
         /\ \A k \in DOMAIN name : name[k] \in DotParts => k <= i
  ELSE 0

\* the extension and the base name getCleanFileName splits a name into
ExtensionOf(name) ==
  IF EndsWithTarGz(name) THEN <<".tar", ".gz">>
  ELSE IF LastDot(name) # 0 THEN SubSeq(name, LastDot(name), Len(name))
  ELSE << >>

BaseNameOf(name) ==
  IF EndsWithTarGz(name) THEN SubSeq(name, 1, Len(name) - 2)
  ELSE IF LastDot(name) # 0 THEN SubSeq(name, 1, LastDot(name) - 1)
  ELSE name

\* baseName.replace(/_\d{8}(_\d{6})?$/, '')
RemoveTimestamp(base) ==
  IF Len(base) >= 2 /\ base[Len(base) - 1] = "_20251017"
       /\ base[Len(base)] = "_235959"
  THEN SubSeq(base, 1, Len(base) - 2)
  ELSE IF Len(base) >= 1 /\ base[Len(base)] = "_20251017"
  THEN SubSeq(base, 1, Len(base) - 1)
  ELSE base

\* baseName.replace(/_(backup|new|old|tmp|temp)$/i, '')
RemoveSuffix(base) ==
  IF Len(base) >= 1 /\ base[Len(base)] = "_backup"
  THEN SubSeq(base, 1, Len(base) - 1)
  ELSE base

\* the two defaults: an empty base name, and a base name that contains
\* 'upload' or 'database', become 'uploads'
NormalizeBase(base) ==
  IF base = << >> THEN <<"uploads">>
  ELSE IF \E i \in DOMAIN base : base[i] \in {"uploads", "database"}
  THEN <<"uploads">>
  ELSE base

\* FileTransferService.getCleanFileName
getCleanFileName(filename) ==
  NormalizeBase(RemoveSuffix(RemoveTimestamp(BaseNameOf(filename))))
    \o ExtensionOf(filename)

InitClean ==
  /\ NoBatch
  /\ sftp = NoSftp
  /\ drive = NoDrive
  /\ ssh = NoSsh
  /\ backupConfig = DefaultBackupConfig
  /\ \E filename \in FileNames :
       fileTransfer = [pc |-> "getCleanFileName", filename |-> filename,
                       names |-> << >>]

\* getCleanFileName applied to the file name, and then to its own result
CleanFileName ==
  /\ fileTransfer # NoFileTransfer
  /\ fileTransfer.pc = "getCleanFileName"
  /\ Len(fileTransfer.names) < 2
  /\ fileTransfer' = [fileTransfer EXCEPT !.names = Append(@,
       getCleanFileName(IF @ = << >> THEN fileTransfer.filename
                        ELSE @[Len(@)]))]
  /\ UNCHANGED <<servers, fileSize, backupService, discordEnabled, job, results,
                 settleOrder, bulk, sftp, drive, ssh, backupConfig>>

NextClean == CleanFileName

\* getCleanFileName on every file name of the bound
SpecClean == InitClean /\ [][NextClean]_vars

\* -------------------------------- the files of the jobs of one batch
\* milliseconds that pass while the batch runs
MaxClock == 2

\* new Date().getTime() at tick t of the run, as the part of a file name
TimestampPart(t) ==
  CASE t = 0 -> "_1760745599000"
    [] t = 1 -> "_1760745599001"
    [] OTHER -> "_1760745599002"

\* the fields of a BackupConfig that make up the paths of a job; every
\* server of the request has the default localBackupPath and the same
\* remoteDirectory
PathConfigs ==
  [host : {"h1", "h2"}, serverName : {"s1", "s2"},
   targetFolder : {"uploads", "database", "data"}]

\* two jobs of one batch
PathJobs == {1, 2}

\* compressFolder: `${folderName}_${timestamp}.zip` in the parent directory
\* of the target folder on the host of the job
CompressedFile(config, t) ==
  [host |-> config.host,
   file |-> <<config.targetFolder, TimestampPart(t), ".zip">>]

\* path.join(localBackupPath, serverName, dateFolderName, fileName)
LocalPath(config, fileName) == [serverName |-> config.serverName, file |-> fileName]

InitPaths ==
  /\ NoBatch
  /\ sftp = NoSftp
  /\ drive = NoDrive
  /\ ssh = NoSsh
  /\ backupConfig = DefaultBackupConfig
  /\ \E configs \in [PathJobs -> PathConfigs] :
       fileTransfer =
         [pc |-> "batch", clock |-> 0,
          jobs |-> [j \in PathJobs |->
                      [config |-> configs[j], pc |-> "compressFolder",
                       remote |-> {}, written |-> {}]]]

SetPaths(f) ==
  /\ fileTransfer' = f
  /\ UNCHANGED <<servers, fileSize, backupService, discordEnabled, job, results,
                 settleOrder, bulk, sftp, drive, ssh, backupConfig>>

PathsRunning == fileTransfer # NoFileTransfer /\ fileTransfer.pc = "batch"

\* a millisecond passes
PathTick ==
  /\ PathsRunning
  /\ fileTransfer.clock < MaxClock
  /\ SetPaths([fileTransfer EXCEPT !.clock = @ + 1])

\* compressFolder creates the archive; downloadAndOrganizeFile then starts
\* to write localFilePath, the date folder joined with the remote file name
PathCompressFolder(j) ==
  /\ PathsRunning
  /\ fileTransfer.jobs[j].pc = "compressFolder"
  /\ LET config == fileTransfer.jobs[j].config
         remote == CompressedFile(config, fileTransfer.clock)
     IN  SetPaths([fileTransfer EXCEPT !.jobs[j] =
           [@ EXCEPT !.pc = "downloadFile",
                     !.remote = {remote},
                     !.written = {LocalPath(config, remote.file)}]])

\* downloadFile resolved: renameSync(localFilePath, cleanFilePath), then
\* the job goes on to the cleanup
PathDownloadFile(j) ==
  /\ PathsRunning
  /\ fileTransfer.jobs[j].pc = "downloadFile"
  /\ LET config == fileTransfer.jobs[j].config
     IN  \E remote \in fileTransfer.jobs[j].remote :
           SetPaths([fileTransfer EXCEPT !.jobs[j] =
             [@ EXCEPT !.pc = "deleteRemoteFile",
                       !.written = @ \cup
                         {LocalPath(config, getCleanFileName(remote.file))}]])

\* the cleanup settles and executeBackup returns
PathDeleteRemoteFile(j) ==
  /\ PathsRunning
  /\ fileTransfer.jobs[j].pc = "deleteRemoteFile"
  /\ SetPaths([fileTransfer EXCEPT !.jobs[j].pc = "returned"])

NextPaths ==
  \/ PathTick
  \/ \E j \in PathJobs : PathCompressFolder(j)
  \/ \E j \in PathJobs : PathDownloadFile(j)
  \/ \E j \in PathJobs : PathDeleteRemoteFile(j)

\* the remote and local files of two jobs of one batch
SpecPaths == InitPaths /\ [][NextPaths]_vars

\* every awaited call of a job
PcValues ==
  {"idle", "testConnection", "checkRequiredTools", "directoryExists",
   "compressFolder", "downloadAndOrganizeFile", "uploadFile",
   "hy_getRemoteFileSize", "lg_getRemoteFileSize", "lg_whichRclone",
   "lg_uploadWithRcloneLarge", "lg_uploadWithOptimizedStreaming",
   "lg_uploadWithChunkedStreaming", "hy_isRcloneAvailable",
   "hy_uploadWithRclone", "hy_getRemoteFileSize2", "lf_downloadFile",
   "lf_createDateFolder", "lf_uploadFile", "st_getReadStream",
   "st_createDateFolder", "st_uploadFromStream", "st_clientEnd",
   "deleteRemoteFile", "sendBackupSuccess", "sendBackupFailure",
   "catchDeleteRemoteFile", "returned", "threw", "settled"}

TypeOK ==
  /\ servers \in Seq(Configs)
  /\ backupService \in BackupServices
  /\ discordEnabled \in BOOLEAN
  /\ DOMAIN job = Jobs /\ DOMAIN results = Jobs /\ DOMAIN fileSize = Jobs
  /\ \A j \in Jobs :
       /\ fileSize[j] \in FileSizes
       /\ job[j].pc \in PcValues
       /\ job[j].success \in BOOLEAN
       /\ job[j].deleteCalls \in 0 .. 2
       /\ job[j].steps \in [DOMAIN NoSteps -> BOOLEAN]

\* the job's executeBackup call has ended and produced its result
Done(j) == job[j].pc \in {"returned", "settled"}

\* the strategies a job's resolver has invoked so far
Attempted(j) == {job[j].attempts[i] : i \in DOMAIN job[j].attempts}

\* ----------------------------------------------------------------- C1
\* C1: for an archive whose size exceeds the large-file threshold (1 GB) the
\* resolver never attempts or selects the local-fallback strategy.
C1_NoLocalFallbackForLargeFile ==
  \A j \in Jobs :
    isLargeFile(fileSize[j]) =>
      /\ "local" \notin Attempted(j)
      /\ job[j].strategy # "local"

\* ----------------------------------------------------------------- C2
\* a step in which job j raises an exception inside executeBackup
RaiseStep(j) == job[j].raisedAt = "none" /\ job'[j].raisedAt # "none"

\* job k, once started and not yet settled, has a step it can take
CanProceed(k) ==
  job[k].pc \notin {"idle", "settled"} =>
    ENABLED (JobStep(k) \/ DriveStep(k) \/ JobSettle(k))

\* C2: an exception raised inside one job of a batch becomes a failed result
\* of that job (with the steps it completed and the reason); it does not end
\* the batch call and it neither changes nor blocks any sibling job.
C2_FailureIsolation ==
  /\ [](\A j \in Jobs :
          /\ CanProceed(j)
          /\ ~job[j].threw
          /\ (job[j].raisedAt # "none" /\ results[j] # Pending) =>
               /\ results[j] = ResultOf(j, job[j])
               /\ ~results[j].success
               /\ results[j].error # "none")
  /\ [][\A j \in Jobs :
          RaiseStep(j) =>
            /\ bulk' = bulk
            /\ \A k \in Jobs \ {j} :
                 job'[k] = job[k] /\ results'[k] = results[k]]_vars

\* a batch in which job 1 failed with an exception and was settled while
\* job 2, still running after that, went on to settle with success
C2_Witness ==
  /\ Len(servers) >= 2
  /\ results[1] # Pending /\ job[1].raisedAt # "none"
  /\ results[2] # Pending /\ results[2].success
  /\ settleOrder[1] = 1

\* ----------------------------------------------------------------- C3
\* C3: before a job returns its result it has attempted remote cleanup of the
\* compressed artifact, on the success path and on every failure path after
\* the compression command was issued.
C3_CleanupAfterCompressionIssued ==
  \A j \in Jobs :
    (Done(j) /\ job[j].compressIssued) => job[j].deleteCalls >= 1

\* ----------------------------------------------------------------- C4
\* C4: every started job ends by returning one result object with success
\* true or false; executeBackup never throws to its caller.
C4_AlwaysReturnsResult ==
  /\ [](\A j \in Jobs : ~job[j].threw /\ job[j].pc # "threw")
  /\ <>(\A j \in Jobs : Done(j) /\ job[j].success \in BOOLEAN)

\* a job that returned its result after a failed transfer, a failure
\* notification and a failed remote cleanup
C4_Witness ==
  \E j \in Jobs :
    /\ Done(j) /\ ~job[j].success
    /\ job[j].notified = "failure"
    /\ job[j].deleteFailed

\* ----------------------------------------------------------------- C5
\* the steps after SSH verification whose exception reaches the catch block
StepsAfterSsh ==
  {"checkRequiredTools", "directoryExists", "compressFolder",
   "downloadAndOrganizeFile", "uploadWithHybrid", "deleteRemoteFile"}

\* C5 as stated: every exception raised by a step after SSH verification,
\* whether it reaches the catch block of executeBackup or is caught inside
\* the upload step, ends in a result with success false and a reason.
C5_EveryExceptionFailsJob ==
  \A j \in Jobs :
    (Done(j) /\ (job[j].raisedAt \in StepsAfterSsh \/ job[j].swallowedAt # "none")) =>
      ~job[j].success /\ job[j].error # "none"

\* C5 (amended): once the tool check, the directory check, the compression,
\* the download or the upload resolver has raised an exception, the job only
\* sends the failure notification and cleans up, and its result has success
\* false with the reason recorded; an exception of the Drive upload of the
\* local method is caught inside that step and the job goes on to cleanup
\* and returns success true.
C5_AbortOnException ==
  \A j \in Jobs :
    /\ job[j].raisedAt \in StepsAfterSsh =>
         /\ job[j].pc \in {"sendBackupFailure", "catchDeleteRemoteFile",
                           "returned", "settled"}
         /\ ~job[j].success
         /\ job[j].error # "none"
    /\ job[j].swallowedAt = "uploadFile" =>
         /\ job[j].pc \in {"deleteRemoteFile", "sendBackupSuccess",
                           "returned", "settled"}
         /\ job[j].error = "none"
         /\ Done(j) => job[j].success

\* a job that ended after its directory check raised
C5_Witness ==
  \E j \in Jobs :
    /\ Done(j)
    /\ job[j].raisedAt = "directoryExists"
    /\ job[j].steps.sshConnection /\ ~job[j].steps.compression

\* ----------------------------------------------------------------- C6
\* cloud upload was enabled, was attempted and no attempt succeeded
AllCloudUploadsFailed(j) ==
  servers[j].enabled /\ job[j].cloudTried /\ ~job[j].cloudOk

\* C6 as stated: when cloud upload is enabled and every cloud upload attempt
\* of the job fails, the job's result has success false.
C6_UploadFailureFailsJob ==
  \A j \in Jobs : (Done(j) /\ AllCloudUploadsFailed(j)) => ~job[j].success

\* C6 (amended): with upload method direct run by the upload resolver, a
\* job in which every strategy failed has success false and the resolver's
\* error as its reason; with upload method local, a failed Drive upload
\* leaves the result successful with googleDriveUpload false and download true.
C6_ResolverFailureFailsJob ==
  \A j \in Jobs :
    (Done(j) /\ AllCloudUploadsFailed(j)) =>
      /\ (UploadMethodOf(servers[j].uploadMethod) = "direct"
          /\ backupService = "hybrid") =>
           ~job[j].success /\ job[j].error = "All upload methods failed"
      /\ UploadMethodOf(servers[j].uploadMethod) = "local" =>
           /\ job[j].success
           /\ ~job[j].steps.googleDriveUpload
           /\ job[j].steps.download

\* a job of the resolver in which every applicable strategy was attempted
\* and failed
C6_Witness ==
  \E j \in Jobs :
    /\ Done(j) /\ AllCloudUploadsFailed(j)
    /\ backupService = "hybrid" /\ servers[j].uploadMethod = "direct"
    /\ "local" \in Attempted(j)

\* ----------------------------------------------------------------- C7
\* C7: a job that fails after the compression step succeeded and before the
\* transfer completed has attempted deletion of the remote archive, and its
\* result has success false, steps.compression true, steps.download false.
C7_CleanupAfterFailedTransfer ==
  \A j \in Jobs :
    (Done(j) /\ job[j].raisedAt \in {"downloadAndOrganizeFile", "uploadWithHybrid"}) =>
      /\ job[j].deleteCalls >= 1
      /\ ~job[j].success
      /\ job[j].steps.compression
      /\ ~job[j].steps.download

\* a job whose download failed after a successful compression
C7_Witness ==
  \E j \in Jobs :
    /\ Done(j)
    /\ job[j].raisedAt = "downloadAndOrganizeFile"
    /\ job[j].steps.compression

\* ----------------------------------------------------------------- C8
\* job j completes a deleteRemoteFile call in this step
CleanupStep(j) ==
  /\ job[j].pc \in {"deleteRemoteFile", "catchDeleteRemoteFile"}
  /\ job'[j].pc # job[j].pc

\* C8: whether the deletion of the remote archive succeeds or fails,
\* deleteRemoteFile does not throw and the job's verdict is the same: on the
\* success path success becomes true and no error is recorded, on the failure
\* path success and the recorded error stay as they were.
C8_CleanupNeverChangesVerdict ==
  [][\A j \in Jobs :
       CleanupStep(j) =>
         /\ job'[j].error = job[j].error
         /\ job'[j].raisedAt = job[j].raisedAt
         /\ job'[j].success = (job[j].pc = "deleteRemoteFile")
         /\ job'[j].pc \in {"sendBackupSuccess", "returned"}]_vars

\* a job that returned success although the deletion failed
C8_Witness ==
  \E j \in Jobs :
    Done(j) /\ job[j].deleteFailed /\ job[j].success /\ job[j].error = "none"

\* ----------------------------------------------------------------- C9
\* C9: in the returned BulkResult the i-th entry of results is the result of
\* the i-th input config, whatever the order in which the jobs finished.
C9_ResultsInInputOrder ==
  bulk # NoBulk =>
    /\ Len(bulk.results) = Len(servers)
    /\ \A i \in Jobs :
         /\ bulk.results[i].serverName = i
         /\ bulk.results[i] = ResultOf(i, job[i])

\* a batch returned after job 2 finished before job 1, with different verdicts
C9_Witness ==
  /\ bulk # NoBulk
  /\ Len(settleOrder) >= 2
  /\ settleOrder[1] = 2
  /\ bulk.results[1].success # bulk.results[2].success

\* ---------------------------------------------------------------- C10
\* C10: in every returned BulkResult successCount is the number of entries
\* with success true, failureCount the number with success false, and their
\* sum is totalServers.
C10_CountsMatchResults ==
  bulk # NoBulk =>
    /\ bulk.successCount =
         Cardinality({i \in DOMAIN bulk.results : bulk.results[i].success})
    /\ bulk.failureCount =
         Cardinality({i \in DOMAIN bulk.results : ~bulk.results[i].success})
    /\ bulk.successCount + bulk.failureCount = bulk.totalServers

\* a returned batch with at least one success and one failure
C10_Witness ==
  /\ bulk # NoBulk
  /\ bulk.successCount >= 1
  /\ bulk.failureCount >= 1

\* ---------------------------------------------------------------- C11
\* C11: the batch call returns its BulkResult only after every job of the
\* batch has settled: when the result is published no job is still running,
\* it has one entry per job, and neither the first failure nor the first
\* success of a job publishes it.
C11_ReturnsAfterAllSettled ==
  /\ [](bulk # NoBulk =>
          /\ \A j \in Jobs : job[j].pc = "settled" /\ results[j] # Pending
          /\ Len(bulk.results) = Len(servers)
          /\ Len(settleOrder) = Len(servers))
  /\ [][bulk' # bulk =>
          /\ bulk = NoBulk
          /\ \A j \in Jobs : job[j].pc = "settled" /\ results[j] # Pending]_vars

\* a batch whose first settled job failed while another job, settled later,
\* succeeded, and whose result was published after both
C11_Witness ==
  /\ bulk # NoBulk
  /\ Len(settleOrder) >= 2
  /\ ~results[settleOrder[1]].success
  /\ \E i \in 2 .. Len(settleOrder) : results[settleOrder[i]].success

\* ---------------------------------------------------------------- C12
\* the strategies of the large-file chain, in the order of uploadLargeFile
LargeStrategies ==
  <<"large-rclone", "large-optimized-streaming", "large-chunked-streaming">>

\* the awaited calls in which an upload strategy is running
StrategyCalls ==
  {"lg_uploadWithRcloneLarge", "lg_uploadWithOptimizedStreaming",
   "lg_uploadWithChunkedStreaming", "hy_uploadWithRclone",
   "lf_downloadFile", "lf_createDateFolder", "lf_uploadFile"}

\* the awaited calls of the last strategy of the resolver
LastStrategyCalls == {"lf_createDateFolder", "lf_uploadFile"}

\* job j's resolver raises its error in this step
ResolverRaises(j) ==
  job[j].raisedAt = "none" /\ job'[j].raisedAt = "uploadWithHybrid"

\* a strategy of job j's resolver fails in this step: its error is recorded
StrategyFails(j) ==
  job[j].pc \in StrategyCalls /\ job'[j].lastError # job[j].lastError

\* C12: the failure of one upload strategy does not fail the upload: the
\* resolver goes on to the next strategy (or to the probe that selects it);
\* it raises its error only from the failure of its last strategy, when
\* every strategy it attempted has failed and the chain for the measured
\* size has been gone through.
C12_FailureDemotedToNextStrategy ==
  /\ [][\A j \in Jobs :
          /\ ResolverRaises(j) => job[j].pc \in LastStrategyCalls
          /\ StrategyFails(j) =>
               \/ job[j].pc \in LastStrategyCalls /\ ResolverRaises(j)
               \/ /\ job[j].pc \notin LastStrategyCalls
                  /\ job'[j].raisedAt = "none"
                  /\ \/ Len(job'[j].attempts) = Len(job[j].attempts) + 1
                     \/ job'[j].pc = "hy_isRcloneAvailable"]_vars
  /\ [](\A j \in Jobs :
          job[j].raisedAt = "uploadWithHybrid" =>
            /\ ~job[j].cloudOk /\ job[j].strategy = "none"
            /\ job[j].attempts # << >>
            /\ job[j].attempts[Len(job[j].attempts)] = "local"
            /\ isLargeFile(job[j].measuredSize) =>
                 {"large-optimized-streaming", "large-chunked-streaming"}
                   \subseteq Attempted(j))

\* a job whose rclone upload failed and whose local fallback then uploaded
\* the archive
C12_Witness ==
  \E j \in Jobs :
    /\ Done(j) /\ job[j].success
    /\ job[j].attempts = <<"rclone", "local">>
    /\ job[j].lastError = "rclone"
    /\ job[j].strategy = "local"

\* ---------------------------------------------------------------- C13
\* the errors with which the last strategy, the local fallback, can fail
LocalFallbackCauses == {"createDateFolder", "uploadFile"}

\* C13: when every strategy has failed the resolver raises one error, "All
\* upload methods failed", whose cause is the error of the strategy that
\* failed last (the local fallback), not that of an earlier strategy; the
\* error of the large-file chain is likewise raised once, after its last
\* strategy failed, and nothing is raised after the resolver's error.
C13_SingleErrorWithLastCause ==
  /\ [](\A j \in Jobs :
          job[j].raisedAt = "uploadWithHybrid" =>
            /\ job[j].error = "All upload methods failed"
            /\ job[j].attempts[Len(job[j].attempts)] = "local"
            /\ job[j].lastError \in LocalFallbackCauses
            /\ ~job[j].threw)
  /\ [][\A j \in Jobs :
          /\ ResolverRaises(j) =>
                job'[j].lastError =
                  (IF job[j].pc = "lf_uploadFile" THEN "uploadFile"
                                                  ELSE "createDateFolder")
          /\ job'[j].lastError = "All large file upload methods failed" =>
                \/ job[j].lastError = job'[j].lastError
                \/ job[j].pc = "lg_uploadWithChunkedStreaming"
          /\ job[j].raisedAt = "uploadWithHybrid" =>
                /\ job'[j].raisedAt = job[j].raisedAt
                /\ job'[j].error = job[j].error
                /\ job'[j].lastError = job[j].lastError]_vars

\* a job whose resolver raised after rclone and then the upload of the local
\* fallback failed: the error carries the cause of the local fallback
C13_Witness ==
  \E j \in Jobs :
    /\ Done(j)
    /\ job[j].raisedAt = "uploadWithHybrid"
    /\ job[j].attempts = <<"rclone", "local">>
    /\ job[j].lastError = "uploadFile"

\* ---------------------------------------------------------------- C14
\* job j's resolver has entered the large-file chain (uploadLargeFile)
LargeChainUsed(j) ==
  \/ job[j].pc \in {"lg_getRemoteFileSize", "lg_whichRclone"}
  \/ \E i \in DOMAIN LargeStrategies : LargeStrategies[i] \in Attempted(j)

\* job j's resolver has entered the standard chain (Method 1, Method 2)
StandardChainUsed(j) ==
  \/ job[j].pc = "hy_isRcloneAvailable"
  \/ Attempted(j) \cap {"rclone", "local"} # {}

\* C14: the resolver uses the large-file chain exactly when the actual size
\* of the remote archive exceeds 1 GB, and the standard chain exactly when
\* it does not.
C14_ChainMatchesActualSize ==
  \A j \in Jobs :
    (LargeChainUsed(j) \/ StandardChainUsed(j)) =>
      /\ LargeChainUsed(j) <=> isLargeFile(fileSize[j])
      /\ StandardChainUsed(j) <=> ~isLargeFile(fileSize[j])

\* ---------------------------------------------------------------- C15
\* the position of a large-file strategy in the chain
LargeRank(s) == CHOOSE i \in DOMAIN LargeStrategies : LargeStrategies[i] = s

IsLargeStrategy(s) == \E i \in DOMAIN LargeStrategies : LargeStrategies[i] = s

\* the large-file strategies job j has attempted, in the order of the attempts
LargeAttempts(j) == SelectSeq(job[j].attempts, IsLargeStrategy)

\* the awaited call in which each large-file strategy runs
LargeCall(s) ==
  CASE s = "large-rclone" -> "lg_uploadWithRcloneLarge"
    [] s = "large-optimized-streaming" -> "lg_uploadWithOptimizedStreaming"
    [] s = "large-chunked-streaming" -> "lg_uploadWithChunkedStreaming"

\* the resolver's awaited calls
ResolverCalls ==
  StrategyCalls \cup {"hy_getRemoteFileSize", "lg_getRemoteFileSize",
                      "lg_whichRclone", "hy_isRcloneAvailable",
                      "hy_getRemoteFileSize2"}

\* C15: the strategies of the large-file chain are attempted in the order
\* rclone copy, optimized streaming, chunked streaming; a strategy is
\* attempted only in the step in which its predecessor failed (or, for the
\* optimized streaming, in which the rclone probe found rclone unavailable);
\* the first success ends the chain and is the last attempt.
C15_LargeChainOrder ==
  /\ [](\A j \in Jobs :
          LET la == LargeAttempts(j)
          IN  /\ \A i \in DOMAIN la :
                   /\ i > 1 => LargeRank(la[i]) = LargeRank(la[i - 1]) + 1
                   /\ i = 1 => LargeRank(la[i]) \in {1, 2}
              /\ IsLargeStrategy(job[j].strategy) =>
                   /\ job[j].attempts[Len(job[j].attempts)] = job[j].strategy
                   /\ job[j].pc \notin ResolverCalls)
  /\ [][\A j \in Jobs :
          LET la == LargeAttempts(j)
              lb == SelectSeq(job'[j].attempts, IsLargeStrategy)
          IN  lb # la =>
                /\ Len(lb) = Len(la) + 1
                /\ ~job[j].cloudOk /\ ~job'[j].cloudOk
                /\ LET k == LargeRank(lb[Len(lb)])
                   IN  \/ k = 1 /\ job[j].pc = "lg_whichRclone"
                       \/ k = 2 /\ job[j].pc = "lg_whichRclone" /\ la = << >>
                       \/ /\ k > 1
                          /\ job[j].pc = LargeCall(LargeStrategies[k - 1])
                          /\ job'[j].lastError = LargeStrategies[k - 1]]_vars

\* a large archive uploaded by the chunked streaming after the rclone copy
\* and the optimized streaming had failed
C15_Witness ==
  \E j \in Jobs :
    /\ Done(j) /\ job[j].success
    /\ job[j].attempts = LargeStrategies
    /\ job[j].strategy = "large-chunked-streaming"

DirectCalls ==
  ResolverCalls \cup {"st_getReadStream", "st_createDateFolder",
                      "st_uploadFromStream", "st_clientEnd"}

\* C17: when the upload method of the request is local, or is not given, the
\* job never enters the upload resolver or the stream upload and attempts no
\* strategy of theirs; a cloud upload is attempted only after the archive
\* was downloaded to local storage, from the local copy.
C17_LocalMethodNeverDirect ==
  \A j \in Jobs :
    servers[j].uploadMethod \in {"local", "undefined"} =>
      /\ job[j].pc \notin DirectCalls
      /\ job[j].attempts = << >>
      /\ job[j].strategy = "none" /\ job[j].method = "none"
      /\ (job[j].cloudTried \/ job[j].pc = "uploadFile") =>
           /\ servers[j].enabled
           /\ job[j].steps.download
           /\ job[j].localFilePath = "local"

\* a job whose request gave no upload method and which uploaded the archive
\* from its local copy
C17_Witness ==
  \E j \in Jobs :
    /\ servers[j].uploadMethod = "undefined"
    /\ Done(j) /\ job[j].success
    /\ job[j].steps.download /\ job[j].steps.googleDriveUpload
    /\ job[j].localCopy

\* ---------------------------------------------------------------- C18
\* the awaited calls of uploadWithLocalFallback
LocalFallbackCalls == {"lf_downloadFile", "lf_createDateFolder", "lf_uploadFile"}

\* C18: once the local-fallback strategy has finished, by returning or by
\* throwing, the local copy it downloaded is deleted.
C18_LocalCopyDeleted ==
  \A j \in Jobs :
    ("local" \in Attempted(j) /\ job[j].pc \notin LocalFallbackCalls) =>
      ~job[j].localCopy

\* ---------------------------------------------------------------- C19
\* the method value under which the resolver returns each strategy
MethodOfStrategy(s) == IF IsLargeStrategy(s) THEN "large-file-optimized" ELSE s

\* the transfer path of each strategy
PathOfStrategy(s) ==
  IF s = "local" THEN "Local (SSH -> PC -> Drive)" ELSE "Direct (SSH -> Drive)"

\* C19: the strategy recorded for a successful upload is the one that
\* uploaded the archive: the method of the resolver's outcome names it, and
\* the upload method reported in the job's success notification is its path.
C19_RecordedStrategyIsActual ==
  \A j \in Jobs :
    job[j].strategy \in {"rclone", "local"} \cup Attempted(j) =>
      /\ job[j].method # "none" => job[j].method = MethodOfStrategy(job[j].strategy)
      /\ job[j].notified = "success" =>
           MethodDisplay(ReportedMethod(j)) = PathOfStrategy(job[j].strategy)

\* ---------------------------------------------------------------- C20
\* C20: when the copy fails on the first N-1 attempts and succeeds on attempt
\* N <= maxAttempts, downloadFile returns success true after exactly N copy
\* attempts; when the copy fails on every attempt up to maxAttempts it
\* returns success false; it does not throw.
C20_RetryOutcome ==
  sftp.pc = "returned" =>
    /\ ~sftp.threw
    /\ sftp.copied =>
         /\ sftp.success
         /\ sftp.copies <= sftp.maxAttempts
         /\ Len(sftp.delays) = sftp.copies - 1
    /\ (~sftp.copied /\ sftp.maxAttempts > 0 /\ sftp.copies = sftp.maxAttempts) =>
         /\ ~sftp.success
         /\ sftp.error = "fastGet"

SettingsChosen == sftp # NoSftp /\ sftp.fileSize > 0

\* C22: when the caller gives no retry count, the maximum number of copy
\* attempts is 3 for a file smaller than 1 GB and between 5 and 10 for a
\* file of 1 GB or more.
C22_DefaultRetryBySize ==
  (SettingsChosen /\ sftp.options.retryAttempts = 0) =>
    IF sftp.fileSize < KBPerGB
    THEN sftp.maxAttempts = 3
    ELSE sftp.maxAttempts \in 5 .. 10

\* ---------------------------------------------------------------- C23
\* the call has ended, by returning a result or by throwing
SftpEnded == sftp # NoSftp /\ sftp.pc \in {"returned", "threw"}

\* C23 as stated: downloadFile throws to its caller exactly when
\* establishing the connection failed.
C23_ThrowsIffConnectFails ==
  SftpEnded => (sftp.threw <=> sftp.lastError = "connect")

\* C23 (amended): downloadFile never throws; a failure of the connection,
\* of the size read, of every copy attempt or of the session close is
\* returned as a result with success false and the error of the failure, and
\* a result with success true is returned only after a completed copy.
C23_NeverThrows ==
  sftp # NoSftp =>
    /\ ~sftp.threw /\ sftp.pc # "threw"
    /\ sftp.lastError \in {"connect", "stat", "end"} =>
         sftp.pc \in {"catchEnd", "returned"}
    /\ sftp.pc = "returned" =>
         /\ sftp.success => (sftp.copied /\ sftp.error = "none" /\ ~sftp.sessionOpen)
         /\ ~sftp.success =>
              /\ sftp.error = sftp.lastError
              /\ sftp.error \in {"connect", "stat", "fastGet", "end"}
         /\ sftp.lastError = "connect" => (~sftp.success /\ sftp.copies = 0)

\* a call that returned a failed result because the connection could not be
\* established
C23_Witness ==
  /\ sftp # NoSftp
  /\ sftp.pc = "returned"
  /\ ~sftp.success /\ sftp.error = "connect"
  /\ sftp.copies = 0

\* ---------------------------------------------------------------- C24
\* the table of the claim, for a size in units of 1024 bytes
C24_Table(size) ==
  CASE size < 100 * 1024 -> <<32, 64 * 1024>>
    [] size >= 100 * 1024 /\ size < KBPerGB -> <<64, 128 * 1024>>
    [] size >= KBPerGB /\ size < 5 * KBPerGB -> <<96, 256 * 1024>>
    [] size >= 5 * KBPerGB /\ size < 10 * KBPerGB -> <<128, 512 * 1024>>
    [] OTHER -> <<160, 1024 * 1024>>

\* C24: with no caller override the concurrency and the chunk size of a
\* download are those of the table for the file's size: below 100 MB 32 and
\* 64 KB, below 1 GB 64 and 128 KB, below 5 GB 96 and 256 KB, below 10 GB 128
\* and 512 KB, otherwise 160 and 1 MB.
C24_TierTable ==
  (SettingsChosen /\ sftp.options.concurrency = 0 /\ sftp.options.chunkSize = 0) =>
    <<sftp.concurrency, sftp.chunkSize>> = C24_Table(sftp.fileSize)

\* ---------------------------------------------------------------- C25
\* the awaited calls of the transfer/upload step, in every branch
TransferCalls ==
  DirectCalls \cup {"downloadAndOrganizeFile", "uploadFile"}

\* the position of an awaited call in the order of the steps of a job
StepRank(pc) ==
  CASE pc = "idle" -> 0
    [] pc = "testConnection" -> 1
    [] pc = "checkRequiredTools" -> 2
    [] pc = "directoryExists" -> 3
    [] pc = "compressFolder" -> 4
    [] pc \in TransferCalls -> 5
    [] pc = "sendBackupFailure" -> 6
    [] pc \in {"deleteRemoteFile", "catchDeleteRemoteFile"} -> 7
    [] OTHER -> 8

StepFlags == DOMAIN NoSteps

\* every flag that is true in a is true in b
FlagsKept(a, b) == \A f \in StepFlags : a[f] => b[f]

\* C26: within one job a step flag only changes from false to true, and a
\* flag that was set true is true in the result the job returns and in the
\* entry of that job in the result of the batch.
C26_StepFlagsMonotone ==
  /\ [][\A j \in Jobs : FlagsKept(job[j].steps, job'[j].steps)]_vars
  /\ [](\A j \in Jobs :
          results[j] # Pending => FlagsKept(job[j].steps, results[j].steps))
  /\ [](bulk # NoBulk =>
          \A i \in DOMAIN bulk.results :
            FlagsKept(job[bulk.results[i].serverName].steps,
                      bulk.results[i].steps))

\* a batch result that holds a failed job with the first three flags true
C26_Witness ==
  /\ bulk # NoBulk
  /\ \E i \in DOMAIN bulk.results :
       /\ ~bulk.results[i].success
       /\ bulk.results[i].steps.sshConnection
       /\ bulk.results[i].steps.directoryCheck
       /\ bulk.results[i].steps.compression

\* ---------------------------------------------------------------- C27
\* a call that returned and a later call for the same folder name that
\* started after it and returned too
Successive(i, k) ==
  /\ i \in drive.calls[k].after
  /\ drive.calls[i].name = drive.calls[k].name
  /\ drive.calls[i].pc = "returned"
  /\ drive.calls[k].pc = "returned"

\* C27: two successive createDateFolder calls with the same folder name and
\* parent return the same folder id, and the second call creates no folder.
C27_SuccessiveCallsSameFolder ==
  \A i \in FolderCalls : \A k \in FolderCalls :
    Successive(i, k) =>
      /\ drive.calls[k].id = drive.calls[i].id
      /\ ~drive.calls[k].created

\* the first call created the folder and the second call returned it
C27_Witness ==
  \E i \in FolderCalls : \E k \in FolderCalls :
    /\ Successive(i, k)
    /\ drive.calls[i].created
    /\ drive.calls[k].id = drive.calls[i].id

\* ---------------------------------------------------------------- C28
\* C28: of the createDateFolder calls of concurrent jobs for the same folder
\* name under the same parent, all that return obtain the same folder id,
\* and at most one folder with that name exists under the parent.
C28_ConcurrentCallsSameFolder ==
  /\ \A i \in FolderCalls : \A k \in FolderCalls :
       (/\ drive.calls[i].name = drive.calls[k].name
        /\ drive.calls[i].pc = "returned"
        /\ drive.calls[k].pc = "returned") =>
         drive.calls[i].id = drive.calls[k].id
  /\ \A serverName \in FolderServers :
       Cardinality(ExistingFolders(FolderNameOf(serverName))) <= 1

\* ---------------------------------------------------------------- C29
DirectoryExistsEnded ==
  ssh # NoSsh /\ ssh.op = "directoryExists" /\ ssh.pc \in {"returned", "threw"}

\* C29: directoryExists returns false only when the remote test ran and
\* reported the directory absent; it does not throw for a missing
\* directory; a transport or authentication failure is propagated as an
\* error and not returned as false.
C29_FalseOnlyWhenAbsent ==
  DirectoryExistsEnded =>
    /\ (ssh.pc = "returned" /\ ~ssh.value) =>
         (ssh.outcome = "ran" /\ ~ssh.present)
    /\ (ssh.outcome = "ran" /\ ~ssh.present) => ~ssh.threw
    /\ ssh.outcome # "ran" => ssh.threw

\* ---------------------------------------------------------------- C30
RECURSIVE SeqToSet(_)
SeqToSet(q) == IF q = << >> THEN {} ELSE {Head(q)} \cup SeqToSet(Tail(q))

CheckRequiredToolsReturned ==
  ssh # NoSsh /\ ssh.op = "checkRequiredTools" /\ ssh.pc = "returned"

\* C30: checkRequiredTools probes every required binary of the compression
\* kind (zip: zip; tar.gz: tar, gzip), also after one was found missing, and
\* the missing list holds every required binary that is not installed.
C30_ProbesEveryTool ==
  CheckRequiredToolsReturned =>
    /\ RequiredTools("zip") = <<"zip">>
    /\ RequiredTools("tar.gz") = <<"tar", "gzip">>
    /\ ssh.probed = RequiredTools(ssh.compressionType)
    /\ \A tool \in SeqToSet(RequiredTools(ssh.compressionType)) :
         tool \notin ssh.installed => tool \in SeqToSet(ssh.missing)
    /\ ssh.available = (ssh.missing = << >>)

\* tar.gz on a host without tar and with gzip: gzip is probed after tar was
\* found missing, and only tar is reported
C30_Witness ==
  /\ CheckRequiredToolsReturned
  /\ ssh.compressionType = "tar.gz"
  /\ ssh.installed = {"gzip", "zip"}
  /\ ssh.probed = <<"tar", "gzip">>
  /\ ssh.missing = <<"tar">>
  /\ ~ssh.available

\* ---------------------------------------------------------------- C31
\* the step of job j in which its awaited notification call settles
NotificationStep(j) ==
  /\ job[j].pc \in {"sendBackupSuccess", "sendBackupFailure"}
  /\ job'[j].pc # job[j].pc

\* C31: a failure while sending the success or the failure notification
\* never makes executeBackup throw and never changes the success flag, the
\* error message or the step flags of the result the job returns.
C31_NotificationFailureIgnored ==
  /\ [](\A j \in Jobs : job[j].notifyFailed => job[j].pc # "threw")
  /\ [][\A j \in Jobs :
          NotificationStep(j) =>
            /\ job'[j].pc # "threw"
            /\ job'[j].success = job[j].success
            /\ job'[j].error = job[j].error
            /\ job'[j].steps = job[j].steps]_vars
  /\ [](\A j \in Jobs :
          (Done(j) /\ job[j].notifyFailed) =>
            /\ job[j].notified = "success" =>
                 (job[j].success /\ job[j].error = "none")
            /\ job[j].notified = "failure" =>
                 (~job[j].success /\ job[j].error # "none"))

\* a job whose success notification could not be delivered and which
\* returned success true with no error
C31_Witness ==
  \E j \in Jobs :
    /\ Done(j)
    /\ job[j].notifyFailed
    /\ job[j].notified = "success"
    /\ job[j].success
    /\ job[j].error = "none"

\* ---------------------------------------------------------------- C32
\* C32: normalizing an already normalized file name returns it unchanged,
\* clean(clean(f)) = clean(f) for every file name f, and
\* clean('uploads.zip') = 'uploads.zip'.
C32_CleanIdempotent ==
  /\ getCleanFileName(<<"uploads", ".zip">>) = <<"uploads", ".zip">>
  /\ (fileTransfer # NoFileTransfer /\ fileTransfer.pc = "getCleanFileName"
        /\ Len(fileTransfer.names) = 2) =>
       fileTransfer.names[2] = fileTransfer.names[1]

\* ---------------------------------------------------------------- C33
\* C33: a result with success true has steps.download or
\* steps.googleDriveUpload true: the archive was saved locally or uploaded.
C33_SuccessMeansArchiveSaved ==
  \A j \in Jobs :
    (Done(j) /\ job[j].success) =>
      (job[j].steps.download \/ job[j].steps.googleDriveUpload)

\* ---------------------------------------------------------------- C34
\* C34: uploadWithLocalFallback starts the cloud upload (createDateFolder,
\* uploadFile) only if downloadFile returned success true.
C34_UploadOnlyAfterDownload ==
  \A j \in Jobs :
    job[j].pc \in {"lf_createDateFolder", "lf_uploadFile"} => job[j].localCopy

\* ---------------------------------------------------------------- C35
\* C35: in every result a job returns, success is true exactly when no
\* error message is recorded.
C35_SuccessIffNoError ==
  \A j \in Jobs :
    /\ Done(j) => (job[j].success <=> job[j].error = "none")
    /\ results[j] # Pending =>
         (results[j].success <=> results[j].error = "none")

\* a job that returned a failure with the error message of the compression
\* after the failure notification
C35_Witness ==
  \E j \in Jobs :
    /\ Done(j)
    /\ ~job[j].success
    /\ job[j].error = "Compression failed"
    /\ job[j].notified = "failure"

\* ---------------------------------------------------------------- C36
\* a job whose executeBackup call has started and has not returned
Running(j) == job[j].pc \notin {"idle", "returned", "threw", "settled"}

\* C36: a batch never has more than the configured MAX_CONCURRENT_BACKUPS
\* jobs running at the same time.
C36_ConcurrencyLimit ==
  Cardinality({j \in Jobs : Running(j)}) <= backupConfig.maxConcurrentBackups

\* ---------------------------------------------------------------- C37
\* C37: two jobs that run concurrently in one batch never use the same
\* remote archive path and never write the same local file path.
C37_DisjointFiles ==
  PathsRunning =>
    \A i \in PathJobs : \A k \in PathJobs :
      (/\ i # k
       /\ fileTransfer.jobs[i].pc # "returned"
       /\ fileTransfer.jobs[k].pc # "returned") =>
        /\ fileTransfer.jobs[i].remote \cap fileTransfer.jobs[k].remote = {}
        /\ fileTransfer.jobs[i].written \cap fileTransfer.jobs[k].written = {}

\* ---------------------------------------------------------------- C38
\* the upload resolver of job j has returned or raised
ResolverEnded(j) ==
  /\ backupService = "hybrid"
  /\ job[j].attempts # << >> \/ job[j].raisedAt = "uploadWithHybrid"
  /\ job[j].pc \notin ResolverCalls

\* C38: every file-transfer session opened during an upload resolution, the
\* sessions opened to read the remote file size included, is closed by the
\* time the resolver returns or raises.
C38_SessionsClosed ==
  \A j \in Jobs : ResolverEnded(j) => job[j].openSessions = 0

\* ---------------------------------------------------------------- C39
\* C39: in the download step of a job, an archive of size S is copied with
\* the concurrency and the chunk size of the size tier of S.
C39_DownloadUsesTier ==
  (SettingsChosen /\ sftp.copies >= 1) =>
    /\ sftp.concurrency = TierOf(sftp.fileSize).concurrency
    /\ sftp.chunkSize = TierOf(sftp.fileSize).chunkSize

\* ---------------------------------------------------------------- C40
ExecCompleted(i) == ssh.calls[i].pc \in {"resolved", "rejected"}

====
